---------------------------- MODULE Spec2Model ----------------------------
(***************************************************************************)
(* A model of SAM_CAM_BAM's concurrent pipeline: the tracking engine       *)
(* (segmentation.rs), the camera worker (camera.rs), the audio callback    *)
(* (live_audio.rs), the spectral analyzer (music.rs) and their owner       *)
(* (ui.rs).                                                                *)
(*                                                                         *)
(* Conventions.  Option<T> is a sequence: None is <<>>, Some(x) is <<x>>.  *)
(* Slots are 0..MAX_TRACKS-1 as in the source.  Detection indices are the  *)
(* positions 1..Len(dets) of the detection list (the source's index + 1);  *)
(* 0 stands for "no index".  Box coordinates are integers and the f32      *)
(* quotient intersect/union is compared exactly by cross-multiplication.   *)
(***************************************************************************)
EXTENDS Integers, Sequences, FiniteSets, TLC

VARIABLES
    \* tracking engine state
    tracked_objects,     \* segmentation.rs:113  [Slots -> Option<bbox>]
    pending_selection,   \* segmentation.rs:114  Option<(slot, x, y)>
    \* stop flags (ui.rs:104-107)
    cam_stop_signal,
    seg_stop_signal,
    audio_capture_stop_signal,
    audio_processor_stop_signal,
    \* channels (ui.rs:95-100), each [q, tx, rx]: the queue, whether a sender
    \* is alive, whether the receiver is alive
    cam_to_seg,
    seg_to_ui,
    user_interaction,
    raw_samples,
    intensities,
    \* threads: control point and locals
    seg,                 \* segmentation_loop: [pc, latest_frame, exit]
    cam,                 \* camera_capture_loop: [pc, next, exit, send]
    ap,                  \* AudioProcessor::run: [pc, sample_buffer, channels, exit, send]
    ui,                  \* WebcamAppUI: [pc, texture, the three handles, live_audio_status]
    cb,                  \* the input stream's data callback: [pc, late]
    \* history
    hist,                \* commands sent and received, audio blocks delivered,
                         \* frames drained in the running cycle, frames inferred,
                         \* mono samples buffered and analyses made
    cyc,                 \* the last operation applied to the tracker
    jit,                 \* JitterSpec: the slot under test and the cycles done
    dsp,                 \* CeilingSpec, LevelSpec: one band of the analyzer's arithmetic
    calc                 \* IouSpec: two boxes and the quantities computed from them

trackerVars == <<tracked_objects, pending_selection, cyc>>
flagVars ==
    <<cam_stop_signal, seg_stop_signal, audio_capture_stop_signal,
      audio_processor_stop_signal>>
chanVars == <<cam_to_seg, seg_to_ui, user_interaction, raw_samples, intensities>>
threadVars == <<seg, cam, ap, ui, cb>>
harnessVars == <<jit, dsp, calc>>

vars ==
    <<tracked_objects, pending_selection, cam_stop_signal, seg_stop_signal,
      audio_capture_stop_signal, audio_processor_stop_signal, cam_to_seg,
      seg_to_ui, user_interaction, raw_samples, intensities, seg, cam, ap, ui,
      cb, hist, cyc, jit, dsp, calc>>

-----------------------------------------------------------------------------
(* Program constants *)

MAX_TRACKS == 3
Slots == 0 .. (MAX_TRACKS - 1)

\* IOU_THRESHOLD = 0.3 and SELECTION_IOU_THRESHOLD = 0.7, as tenths.
IOU_THRESHOLD_TENTHS == 3
SELECTION_IOU_THRESHOLD_TENTHS == 7

None == <<>>
Some(x) == <<x>>
IsSome(o) == o # <<>>
Unwrap(o) == o[1]

-----------------------------------------------------------------------------
(* Bounding boxes (usls::Bbox as used by segmentation.rs) *)

Box(x, y, w, h) == [xmin |-> x, ymin |-> y, w |-> w, h |-> h]
xmax(b) == b.xmin + b.w
ymax(b) == b.ymin + b.h
Max2(a, b) == IF a >= b THEN a ELSE b
Min2(a, b) == IF a <= b THEN a ELSE b
Area(b) == b.w * b.h

\* Mutant: the overlaps along the two axes are not cut at zero.
IntersectUnclamped(a, b) ==
    (Min2(xmax(a), xmax(b)) - Max2(a.xmin, b.xmin))
        * (Min2(ymax(a), ymax(b)) - Max2(a.ymin, b.ymin))

Intersect(a, b) ==
    LET l == Max2(a.xmin, b.xmin)
        r == Min2(xmax(a), xmax(b))
        t == Max2(a.ymin, b.ymin)
        bt == Min2(ymax(a), ymax(b))
    IN  Max2(r - l, 0) * Max2(bt - t, 0)

Union(a, b) == Area(a) + Area(b) - Intersect(a, b)

\* a.iou(b) > tenths/10
IouExceeds(a, b, tenths) == 10 * Intersect(a, b) > tenths * Union(a, b)

\* Mutant: a later detection of equal IoU replaces the best match.
IouNotLess(a, b, c, d) == Intersect(a, b) * Union(c, d) >= Intersect(c, d) * Union(a, b)

\* a.iou(b) > c.iou(d)
IouGreater(a, b, c, d) == Intersect(a, b) * Union(c, d) > Intersect(c, d) * Union(a, b)

\* The click test of segmentation.rs:135-136 and 237-238 (borders included).
Contains(b, x, y) == x >= b.xmin /\ x <= xmax(b) /\ y >= b.ymin /\ y <= ymax(b)


-----------------------------------------------------------------------------
(* Interaction commands (UserInteractionMsg, segmentation.rs:31-37).  The   *)
(* UpdateAudioPath variant is not modelled: ui.rs never sends it.           *)

SelectObject(slot, x, y) == [type |-> "SelectObject", slot |-> slot, x |-> x, y |-> y]
RemoveObjectAt(x, y) == [type |-> "RemoveObjectAt", slot |-> 0, x |-> x, y |-> y]
ClearSelection == [type |-> "ClearSelection", slot |-> 0, x |-> 0, y |-> 0]

NoTracks == [s \in Slots |-> None]

\* segmentation.rs:132-142: the first slot, in index order, whose bbox
\* contains the point; MAX_TRACKS when there is none.
RECURSIVE FoundSlotFrom(_, _, _, _)
FoundSlotFrom(slot_idx, tr, x, y) ==
    IF slot_idx >= MAX_TRACKS THEN MAX_TRACKS
    ELSE IF IsSome(tr[slot_idx]) /\ Contains(Unwrap(tr[slot_idx]), x, y) THEN slot_idx
    ELSE FoundSlotFrom(slot_idx + 1, tr, x, y)

\* Mutant: found_slot starts at the first slot instead of None.
FoundSlotOrFirst(tr, x, y) ==
    IF FoundSlotFrom(0, tr, x, y) < MAX_TRACKS THEN FoundSlotFrom(0, tr, x, y) ELSE 0

FoundSlot(tr, x, y) == FoundSlotFrom(0, tr, x, y)

\* Mutant: every slot whose bbox contains the point is cleared.
RemoveEveryHit(tr, x, y) ==
    [s \in Slots |->
        IF IsSome(tr[s]) /\ Contains(Unwrap(tr[s]), x, y) THEN None ELSE tr[s]]

\* segmentation.rs:130-149
RemoveAt(tr, x, y) ==
    LET found_slot == FoundSlot(tr, x, y)
    IN  IF found_slot < MAX_TRACKS THEN [tr EXCEPT ![found_slot] = None] ELSE tr

\* Mutant: a selection pending for another slot is kept.
SelectPendingKeepsOther(pend, slot, x, y) ==
    IF slot >= MAX_TRACKS THEN pend
    ELSE IF IsSome(pend) /\ Unwrap(pend).slot # slot THEN pend
    ELSE Some([slot |-> slot, x |-> x, y |-> y])

\* segmentation.rs:122-129
SelectPending(pend, slot, x, y) ==
    IF slot < MAX_TRACKS THEN Some([slot |-> slot, x |-> x, y |-> y]) ELSE pend

\* Mutant: the slots are emptied and the pending selection is kept.
ClearSlotsOnly(tr, pend) == [tracked |-> NoTracks, pending |-> pend]

\* tracked_objects.fill(None); pending_selection = None (segmentation.rs:150-154)
ClearAll(tr, pend) == [tracked |-> NoTracks, pending |-> None]

\* One received command applied to the tracker state (segmentation.rs:121-154).
ApplyCmd(tr, pend, cmd) ==
    CASE cmd.type = "SelectObject" ->
            [tracked |-> tr, pending |-> SelectPending(pend, cmd.slot, cmd.x, cmd.y)]
      [] cmd.type = "RemoveObjectAt" ->
            [tracked |-> RemoveAt(tr, cmd.x, cmd.y), pending |-> pend]
      [] cmd.type = "ClearSelection" -> ClearAll(tr, pend)

-----------------------------------------------------------------------------
(* Selection resolution (segmentation.rs:234-264) *)

\* Mutant: the overlap guard never rejects.
NoOverlapGuard(tr, slot, bbox) == FALSE

\* segmentation.rs:239-246
OverlapsOtherTrack(tr, slot, bbox) ==
    \E other_slot \in Slots :
        /\ other_slot # slot
        /\ IsSome(tr[other_slot])
        /\ IouExceeds(bbox, Unwrap(tr[other_slot]), SELECTION_IOU_THRESHOLD_TENTHS)

\* segmentation.rs:235-254: the first detection, in list order, that contains
\* the click and does not overlap another track; 0 when there is none.
RECURSIVE BestCandidateFrom(_, _, _, _, _, _)
BestCandidateFrom(i, tr, slot, x, y, dets) ==
    IF i > Len(dets) THEN 0
    ELSE IF Contains(dets[i], x, y) /\ ~OverlapsOtherTrack(tr, slot, dets[i]) THEN i
    ELSE BestCandidateFrom(i + 1, tr, slot, x, y, dets)

BestCandidate(tr, slot, x, y, dets) == BestCandidateFrom(1, tr, slot, x, y, dets)

\* Mutant: without a candidate the slot keeps what it had.
NoCandidateKeeps(tr, slot) == tr

\* tracked_objects[slot] = None (segmentation.rs:259-263)
NoCandidate(tr, slot) == [tr EXCEPT ![slot] = None]

\* segmentation.rs:255-263
ResolveSelection(tr, sel, dets) ==
    LET candidate_index == BestCandidate(tr, sel.slot, sel.x, sel.y, dets)
    IN  IF candidate_index # 0
        THEN [tracked |-> [tr EXCEPT ![sel.slot] = Some(dets[candidate_index])],
              draw |-> << <<sel.slot, candidate_index>> >>,
              idx |-> candidate_index]
        ELSE [tracked |-> NoCandidate(tr, sel.slot),
              draw |-> <<>>,
              idx |-> 0]

-----------------------------------------------------------------------------
(* Frame-to-frame matching (segmentation.rs:267-298) *)

\* Mutant: continuity judged against the selection threshold.
ContinuesAboveSelection(prev_bbox, current_bbox) ==
    IouExceeds(prev_bbox, current_bbox, SELECTION_IOU_THRESHOLD_TENTHS)

\* segmentation.rs:275-276
Continues(prev_bbox, current_bbox) ==
    IouExceeds(prev_bbox, current_bbox, IOU_THRESHOLD_TENTHS)

\* segmentation.rs:272-285: scan the detections in order, skip the matched
\* ones, keep the first one with the strictly greatest IoU above threshold.
RECURSIVE BestMatchFrom(_, _, _, _, _)
BestMatchFrom(i, best, bbox, dets, matched) ==
    IF i > Len(dets) THEN best
    ELSE IF i \in matched THEN BestMatchFrom(i + 1, best, bbox, dets, matched)
    ELSE IF Continues(bbox, dets[i])
              /\ (best = 0 \/ IouGreater(bbox, dets[i], bbox, dets[best]))
         THEN BestMatchFrom(i + 1, i, bbox, dets, matched)
         ELSE BestMatchFrom(i + 1, best, bbox, dets, matched)

BestMatch(bbox, dets, matched) == BestMatchFrom(1, 0, bbox, dets, matched)

\* Mutant: a grace period, the unmatched slot keeps its bbox.
LostTrackKept(tracked_obj) == Some(tracked_obj)

\* segmentation.rs:293-295: a slot without a match stays None in
\* next_tracked_objects.
LostTrack(tracked_obj) == None

\* segmentation.rs:289-291
PushDraw(draw, slot_idx, index) ==
    IF \E k \in 1..Len(draw) : draw[k][1] = slot_idx
    THEN draw
    ELSE Append(draw, <<slot_idx, index>>)

\* Mutant: a matched detection stays available to the later slots.
ConsumeNothing(matched, index) == matched

\* matched_current_indices.insert(best_current_index) (segmentation.rs:292)
Consume(matched, index) == matched \cup {index}

\* segmentation.rs:270-297, one iteration per slot in ascending order.
\* acc = [next, matched, draw, matchIdx]
RECURSIVE TrackFrom(_, _, _, _)
TrackFrom(slot_idx, tr, dets, acc) ==
    IF slot_idx >= MAX_TRACKS THEN acc
    ELSE IF ~IsSome(tr[slot_idx]) THEN TrackFrom(slot_idx + 1, tr, dets, acc)
    ELSE LET best == BestMatch(Unwrap(tr[slot_idx]), dets, acc.matched)
         IN  IF best # 0
             THEN TrackFrom(slot_idx + 1, tr, dets,
                    [next |-> [acc.next EXCEPT ![slot_idx] = Some(dets[best])],
                     matched |-> Consume(acc.matched, best),
                     draw |-> PushDraw(acc.draw, slot_idx, best),
                     matchIdx |-> [acc.matchIdx EXCEPT ![slot_idx] = best]])
             ELSE TrackFrom(slot_idx + 1, tr, dets,
                    [acc EXCEPT !.next[slot_idx] = LostTrack(Unwrap(tr[slot_idx]))])

\* Mutant: an empty slot takes the first detection nobody matched.
TrackExistingAcquires(tr, dets, draw) ==
    LET r == TrackFrom(0, tr, dets,
                 [next |-> NoTracks, matched |-> {}, draw |-> draw,
                  matchIdx |-> [s \in Slots |-> 0]])
        free == (1..Len(dets)) \ r.matched
    IN  [r EXCEPT !.next =
            [s \in Slots |->
                IF tr[s] = None /\ free # {}
                THEN Some(dets[CHOOSE i \in free : \A k \in free : i <= k])
                ELSE r.next[s]]]

TrackExisting(tr, dets, draw) ==
    TrackFrom(0, tr, dets,
        [next |-> NoTracks, matched |-> {}, draw |-> draw,
         matchIdx |-> [s \in Slots |-> 0]])

-----------------------------------------------------------------------------
(* One inference result applied to the tracker (segmentation.rs:227-360) *)

\* Ok(ys): selection resolution, then matching.  The backend returns one
\* result per input image, so ys.get(0) is Some; a missing bbox list is the
\* empty list (unwrap_or_default).
\* Mutant: the selection is read and left pending.
TakeKeeps(pend) == pend

\* What pending_selection.take() leaves behind (segmentation.rs:234).
Take(pend) == None

InferenceOk(tr, pend, dets) ==
    LET sel == CHOOSE v \in {IF IsSome(pend)
                              THEN ResolveSelection(tr, Unwrap(pend), dets)
                              ELSE [tracked |-> tr, draw |-> <<>>, idx |-> 0]} : TRUE
        m == CHOOSE v \in {TrackExisting(sel.tracked, dets, sel.draw)} : TRUE
    IN  [tracked |-> m.next,
         pending |-> Take(pend),
         draw |-> m.draw,
         selSlot |-> IF IsSome(pend) THEN Unwrap(pend).slot ELSE MAX_TRACKS,
         selIdx |-> sel.idx,
         afterSel |-> sel.tracked,
         matchIdx |-> m.matchIdx]

\* Mutant: a failed inference clears the slots.
InferenceErrClears(tr) == NoTracks

\* Err(e): segmentation.rs:355-359 touches neither tracked_objects nor
\* pending_selection.
InferenceErr(tr) == tr


-----------------------------------------------------------------------------
(* Channels (crossbeam_channel) *)

SEG_TO_UI_CAP == 1
RAW_SAMPLES_CAP == 10
INTENSITIES_CAP == 5

Chan(tx, rx) == [q |-> <<>>, tx |-> tx, rx |-> rx]

\* try_send on a bounded channel: "Ok", "Full" or "Disconnected".
TrySendResult(ch, cap) ==
    IF ~ch.rx THEN "Disconnected" ELSE IF Len(ch.q) >= cap THEN "Full" ELSE "Ok"

\* Mutant: on a full channel the oldest message makes room for the new one.
TrySentDropOldest(ch, cap, m) ==
    IF ~ch.rx THEN ch
    ELSE IF Len(ch.q) >= cap THEN [ch EXCEPT !.q = Append(Tail(@), m)]
    ELSE [ch EXCEPT !.q = Append(@, m)]

\* The channel after try_send(m): the message is kept only on "Ok".
TrySent(ch, cap, m) ==
    IF TrySendResult(ch, cap) = "Ok" THEN [ch EXCEPT !.q = Append(@, m)] ELSE ch

\* send on an unbounded channel: never full, an error without receiver.
SendResult(ch) == IF ch.rx THEN "Ok" ELSE "Disconnected"

Sent(ch, m) == IF ch.rx THEN [ch EXCEPT !.q = Append(@, m)] ELSE ch

\* A blocking send on a bounded channel returns when there is room or when
\* the receiver is gone; until then the sender waits.
CanSend(ch, cap) == ~ch.rx \/ Len(ch.q) < cap

\* try_recv: "Ok", "Empty" or "Disconnected" (queued messages are still
\* delivered after the senders are gone).
TryRecvResult(ch) ==
    IF Len(ch.q) > 0 THEN "Ok" ELSE IF ~ch.tx THEN "Disconnected" ELSE "Empty"

Received(ch) == [ch EXCEPT !.q = Tail(@)]

FrameMsg(id) == [type |-> "Frame", id |-> id]
ErrorMsg == [type |-> "Error", id |-> 0]

\* The data callback is not running; late counts the blocks it has sent
\* while the capture flag was set.
CbIdle == [pc |-> "idle", late |-> 0]

\* The owner's fields (ui.rs:34-60) when no owner runs.
UiOff ==
    [pc |-> "off", texture |-> FALSE, audio_capture_thread_handle |-> FALSE,
     audio_processor_thread_handle |-> FALSE, seg_thread_handle |-> FALSE,
     live_audio_status |-> "Initializing"]

\* No thread started, no channel in use: the pipeline as the tracker-only
\* specifications leave it.
\* Nothing sent, received, delivered, drained or inferred yet.
NoHist ==
    [sent |-> <<>>, rcvd |-> <<>>, blocks |-> 0, drained |-> <<>>, inferred |-> <<>>,
     samples |-> 0, analyses |-> 0]

WorkersOff ==
    /\ cam_stop_signal = FALSE /\ seg_stop_signal = FALSE
    /\ audio_capture_stop_signal = FALSE /\ audio_processor_stop_signal = FALSE
    /\ seg = [pc |-> "off", latest_frame |-> None, exit |-> "none"]
    /\ cam = [pc |-> "off", next |-> 0, exit |-> "none", send |-> "none"]
    /\ ap = [pc |-> "off", sample_buffer |-> 0, channels |-> 1, exit |-> "none",
          send |-> "none"]
    /\ ui = UiOff
    /\ hist = NoHist
    /\ cb = CbIdle
PipelineOff ==
    /\ WorkersOff
    /\ cam_to_seg = Chan(FALSE, FALSE) /\ seg_to_ui = Chan(FALSE, FALSE)
    /\ user_interaction = Chan(FALSE, FALSE)
    /\ raw_samples = Chan(FALSE, FALSE) /\ intensities = Chan(FALSE, FALSE)

-----------------------------------------------------------------------------
(* History of the last tracker operation *)

NoCmd == [type |-> "None", slot |-> 0, x |-> 0, y |-> 0]

CycRecord(kind, tr, pend, cmd, dets, r) ==
    [kind |-> kind, pre |-> tr, prePending |-> pend, cmd |-> cmd, dets |-> dets,
     draw |-> r.draw, selSlot |-> r.selSlot, selIdx |-> r.selIdx,
     afterSel |-> r.afterSel, matchIdx |-> r.matchIdx]

NoResult(tr) ==
    [draw |-> <<>>, selSlot |-> MAX_TRACKS, selIdx |-> 0, afterSel |-> tr,
     matchIdx |-> [s \in Slots |-> 0]]

CycInit == CycRecord("init", NoTracks, None, NoCmd, <<>>, NoResult(NoTracks))

NoJitter == [slot |-> MAX_TRACKS, n |-> 0, det |-> Box(0, 0, 1, 1)]
NoDsp == [frames |-> 0]
NoCalc == [done |-> FALSE]
HarnessIdle == jit = NoJitter /\ dsp = NoDsp /\ calc = NoCalc

-----------------------------------------------------------------------------
(* Tracker steps shared by every specification *)

\* One command received by the drain loop and applied.
DoCmd(cmd) ==
    \E r \in {ApplyCmd(tracked_objects, pending_selection, cmd)} :
        /\ tracked_objects' = r.tracked
        /\ pending_selection' = r.pending
        /\ cyc' = CycRecord("cmd", tracked_objects, pending_selection, cmd, <<>>,
                            NoResult(tracked_objects))

\* model.forward returned Ok with the detections dets.
DoInferenceOk(dets) ==
    \E r \in {InferenceOk(tracked_objects, pending_selection, dets)} :
        /\ tracked_objects' = r.tracked
        /\ pending_selection' = r.pending
        /\ cyc' = CycRecord("ok", tracked_objects, pending_selection, NoCmd, dets, r)

\* model.forward returned Err.
DoInferenceErr ==
    /\ tracked_objects' = InferenceErr(tracked_objects)
    /\ pending_selection' = pending_selection
    /\ cyc' = CycRecord("err", tracked_objects, pending_selection, NoCmd, <<>>,
                        NoResult(tracked_objects))

-----------------------------------------------------------------------------
(* The tracking engine thread: segmentation_loop (segmentation.rs:84-386). *)
(* One action per blocking or shared operation; seg.pc names the point     *)
(* the thread is at.  The band intensities are read from the engine's own  *)
(* analyzer (segmentation.rs:204-211), which no other thread touches.      *)

SegGoto(pc) == seg' = [seg EXCEPT !.pc = pc]

\* The thread function returns: its receivers and its sender are dropped.
\* out is the tracking-output channel as the last operation left it.
SegReturn(why, out) ==
    /\ seg' = [seg EXCEPT !.pc = "done",
                          !.exit = IF seg.exit = "none" THEN why ELSE seg.exit]
    /\ cam_to_seg' = [cam_to_seg EXCEPT !.rx = FALSE]
    /\ user_interaction' = [user_interaction EXCEPT !.rx = FALSE]
    /\ seg_to_ui' = [out EXCEPT !.tx = FALSE]
    /\ intensities' = [intensities EXCEPT !.rx = FALSE]

SegChansUnchanged == UNCHANGED <<cam_to_seg, user_interaction, seg_to_ui, intensities>>

OutsideSeg ==
    UNCHANGED <<cam_stop_signal, audio_capture_stop_signal,
                audio_processor_stop_signal, raw_samples, cam, ap, ui, cb,
                harnessVars>>

\* YOLO::new (segmentation.rs:98-107).
SegLoad ==
    /\ seg.pc = "load"
    /\ \E ok \in BOOLEAN : SegGoto(IF ok THEN "top" ELSE "report_load_err")
    /\ SegChansUnchanged /\ OutsideSeg
    /\ UNCHANGED <<trackerVars, seg_stop_signal, hist>>

\* ui_sender.send(Error("Failed to load model")), then return
\* (segmentation.rs:103-105).
SegReportLoadErr ==
    /\ seg.pc = "report_load_err"
    /\ CanSend(seg_to_ui, SEG_TO_UI_CAP)
    /\ SegReturn("load_failed", TrySent(seg_to_ui, SEG_TO_UI_CAP, ErrorMsg))
    /\ OutsideSeg
    /\ UNCHANGED <<trackerVars, seg_stop_signal, hist>>

\* while !stop_signal.load() (segmentation.rs:118).  A new cycle starts with
\* a cleared history.
SegTop ==
    /\ seg.pc = "top"
    /\ IF seg_stop_signal
         THEN SegReturn("stop", seg_to_ui)
         ELSE SegGoto("cmds") /\ SegChansUnchanged
    /\ OutsideSeg
    /\ cyc' = CycInit
    /\ UNCHANGED <<tracked_objects, pending_selection, seg_stop_signal, hist>>

\* Mutant: the drain takes one command per cycle.
DrainOneOnly(r) == FALSE

\* After an Ok the command drain goes round its loop again
\* (segmentation.rs:120-121); on Empty or Disconnected it breaks.
DrainContinues(r) == r = "Ok"

\* Mutant: the frame of the previous cycle is kept.
StartFrameDrainKeeps(s) == [s EXCEPT !.pc = "frames"]

\* let mut latest_frame_arc = None (segmentation.rs:181)
StartFrameDrain(s) == [s EXCEPT !.pc = "frames", !.latest_frame = None]

\* One user_interaction_receiver.try_recv() of the command drain
\* (segmentation.rs:120-178).
SegRecvCmd ==
    /\ seg.pc = "cmds"
    /\ LET r == TryRecvResult(user_interaction) IN
         /\ IF r = "Ok"
              THEN /\ DoCmd(Head(user_interaction.q))
                   /\ user_interaction' = Received(user_interaction)
                   /\ hist' = [hist EXCEPT !.rcvd = Append(@, Head(user_interaction.q))]
              ELSE UNCHANGED <<trackerVars, user_interaction, hist>>
         /\ IF DrainContinues(r)
              THEN UNCHANGED seg
              ELSE seg' = StartFrameDrain(seg)
    /\ UNCHANGED <<cam_to_seg, seg_to_ui, intensities, seg_stop_signal>>
    /\ OutsideSeg

\* One camera_receiver.try_recv() of the frame drain
\* (segmentation.rs:182-199).
SegRecvFrame ==
    /\ seg.pc = "frames"
    /\ LET r == TryRecvResult(cam_to_seg) IN
         CASE r = "Ok" ->
                /\ cam_to_seg' = Received(cam_to_seg)
                /\ IF Head(cam_to_seg.q).type = "Frame"
                     THEN /\ seg' = [seg EXCEPT !.latest_frame = Some(Head(cam_to_seg.q).id)]
                          /\ hist' = [hist EXCEPT !.drained = Append(@, Head(cam_to_seg.q).id)]
                     ELSE SegGoto("forward_cam_err") /\ UNCHANGED hist
           [] r = "Empty" -> SegGoto("check_stop") /\ UNCHANGED <<cam_to_seg, hist>>
           [] r = "Disconnected" ->
                SegGoto("report_cam_disc") /\ UNCHANGED <<cam_to_seg, hist>>
    /\ UNCHANGED <<user_interaction, seg_to_ui, intensities, seg_stop_signal>>
    /\ UNCHANGED trackerVars
    /\ OutsideSeg

\* ui_sender.send(Error("Camera Error: ...")) (segmentation.rs:187).
SegForwardCamErr ==
    /\ seg.pc = "forward_cam_err"
    /\ CanSend(seg_to_ui, SEG_TO_UI_CAP)
    /\ seg_to_ui' = TrySent(seg_to_ui, SEG_TO_UI_CAP, ErrorMsg)
    /\ SegGoto("frames")
    /\ UNCHANGED <<cam_to_seg, user_interaction, intensities, seg_stop_signal>>
    /\ UNCHANGED <<trackerVars, hist>>
    /\ OutsideSeg

\* Mutant: the report of the disconnection clears the flag.
SegReportCamDiscClears ==
    /\ seg.pc = "report_cam_disc"
    /\ CanSend(seg_to_ui, SEG_TO_UI_CAP)
    /\ seg_to_ui' = TrySent(seg_to_ui, SEG_TO_UI_CAP, ErrorMsg)
    /\ seg_stop_signal' = FALSE
    /\ seg' = [seg EXCEPT !.pc = "check_stop", !.exit = "camera_disconnected"]
    /\ UNCHANGED <<cam_to_seg, user_interaction, intensities>>
    /\ UNCHANGED <<trackerVars, hist>>
    /\ OutsideSeg

\* ui_sender.send(Error("Camera disconnected.")), stop_signal.store(true),
\* break (segmentation.rs:193-196).
SegReportCamDisc ==
    /\ seg.pc = "report_cam_disc"
    /\ CanSend(seg_to_ui, SEG_TO_UI_CAP)
    /\ seg_to_ui' = TrySent(seg_to_ui, SEG_TO_UI_CAP, ErrorMsg)
    /\ seg_stop_signal' = TRUE
    /\ seg' = [seg EXCEPT !.pc = "check_stop", !.exit = "camera_disconnected"]
    /\ UNCHANGED <<cam_to_seg, user_interaction, intensities>>
    /\ UNCHANGED <<trackerVars, hist>>
    /\ OutsideSeg

\* if stop_signal.load() { break; } (segmentation.rs:201), then the frame
\* test (segmentation.rs:214) and the sleep of an idle cycle (381).
SegCheckStop ==
    /\ seg.pc = "check_stop"
    /\ IF seg_stop_signal
         THEN SegReturn("stop", seg_to_ui)
         ELSE /\ SegGoto(IF IsSome(seg.latest_frame) THEN "infer" ELSE "top")
              /\ SegChansUnchanged
    /\ OutsideSeg
    /\ UNCHANGED <<trackerVars, seg_stop_signal, hist>>

\* model.forward was called on frame id: the history of the cycle's drain is
\* closed.
Inferred(h, id) == [h EXCEPT !.inferred = Append(@, id), !.drained = <<>>]

\* The detection lists model.forward may return in the pipeline.
SegDetLists == {<<>>, <<Box(0, 0, 4, 2)>>}

\* model.forward returned Ok (segmentation.rs:222-354).
SegInferOk ==
    /\ seg.pc = "infer"
    /\ \E dets \in SegDetLists : DoInferenceOk(dets)
    /\ SegGoto("send_frame")
    /\ SegChansUnchanged /\ OutsideSeg
    /\ hist' = Inferred(hist, Unwrap(seg.latest_frame))
    /\ UNCHANGED seg_stop_signal

\* model.forward returned Err (segmentation.rs:222, 355-356).
SegInferErr ==
    /\ seg.pc = "infer"
    /\ DoInferenceErr
    /\ SegGoto("report_infer_err")
    /\ SegChansUnchanged /\ OutsideSeg
    /\ hist' = Inferred(hist, Unwrap(seg.latest_frame))
    /\ UNCHANGED seg_stop_signal

\* ui_sender.send(Error("Segmentation failed: ...")) (segmentation.rs:357).
SegReportInferErr ==
    /\ seg.pc = "report_infer_err"
    /\ CanSend(seg_to_ui, SEG_TO_UI_CAP)
    /\ seg_to_ui' = TrySent(seg_to_ui, SEG_TO_UI_CAP, ErrorMsg)
    /\ SegGoto("send_frame")
    /\ UNCHANGED <<cam_to_seg, user_interaction, intensities, seg_stop_signal>>
    /\ UNCHANGED <<trackerVars, hist>>
    /\ OutsideSeg

\* ui_sender.try_send(Frame(..)) (segmentation.rs:368-375).
SegSendFrame ==
    /\ seg.pc = "send_frame"
    /\ IF TrySendResult(seg_to_ui, SEG_TO_UI_CAP) = "Disconnected"
         THEN SegReturn("ui_disconnected", seg_to_ui)
         ELSE /\ seg_to_ui' = TrySent(seg_to_ui, SEG_TO_UI_CAP,
                                      FrameMsg(Unwrap(seg.latest_frame)))
              /\ SegGoto("top")
              /\ UNCHANGED <<cam_to_seg, user_interaction, intensities>>
    /\ OutsideSeg
    /\ UNCHANGED <<trackerVars, seg_stop_signal, hist>>

SegNext ==
    \/ SegLoad \/ SegReportLoadErr \/ SegTop \/ SegRecvCmd \/ SegRecvFrame
    \/ SegForwardCamErr \/ SegReportCamDisc \/ SegCheckStop
    \/ SegInferOk \/ SegInferErr \/ SegReportInferErr \/ SegSendFrame

\* The engine waits in a blocking send on the tracking-output channel.
SegSendPcs == {"report_load_err", "forward_cam_err", "report_cam_disc", "report_infer_err"}
SegBlocked == seg.pc \in SegSendPcs /\ ~CanSend(seg_to_ui, SEG_TO_UI_CAP)

-----------------------------------------------------------------------------
(* EngineSpec: the engine thread alone, with the other ends of its         *)
(* channels and its stop flag in the hands of an environment that may do   *)
(* whatever a peer can do: send, receive, drop its end, set the flag.      *)

MaxCmds == 2
MaxFrames == 2

EngineCmds ==
    {SelectObject(0, 2, 1), RemoveObjectAt(2, 1), RemoveObjectAt(9, 9), ClearSelection}

EngineInit ==
    /\ tracked_objects = NoTracks
    /\ pending_selection = None
    /\ cyc = CycInit
    /\ HarnessIdle
    /\ cam_stop_signal = FALSE /\ seg_stop_signal = FALSE
    /\ audio_capture_stop_signal = FALSE /\ audio_processor_stop_signal = FALSE
    /\ cam_to_seg = Chan(TRUE, TRUE) /\ seg_to_ui = Chan(TRUE, TRUE)
    /\ user_interaction = Chan(TRUE, TRUE)
    /\ raw_samples = Chan(FALSE, FALSE) /\ intensities = Chan(FALSE, TRUE)
    /\ seg = [pc |-> "load", latest_frame |-> None, exit |-> "none"]
    /\ cam = [pc |-> "off", next |-> 0, exit |-> "none", send |-> "none"]
    /\ ap = [pc |-> "off", sample_buffer |-> 0, channels |-> 1, exit |-> "none",
          send |-> "none"]
    /\ ui = UiOff
    /\ hist = NoHist
    /\ cb = CbIdle

EnvUnchanged ==
    UNCHANGED <<trackerVars, harnessVars, seg, ap, ui, cb, raw_samples, intensities>>

\* tx.send(cmd) on the interaction channel (ui.rs:449, 460, 496).
EnvSendCmd ==
    /\ user_interaction.tx /\ SendResult(user_interaction) = "Ok"
    /\ Len(hist.sent) < MaxCmds
    /\ \E c \in EngineCmds :
         /\ user_interaction' = Sent(user_interaction, c)
         /\ hist' = [hist EXCEPT !.sent = Append(@, c)]
    /\ EnvUnchanged
    /\ UNCHANGED <<flagVars, cam_to_seg, seg_to_ui, cam>>

\* The interaction sender is dropped.
EnvDropCmdSender ==
    /\ user_interaction.tx
    /\ user_interaction' = [user_interaction EXCEPT !.tx = FALSE]
    /\ EnvUnchanged
    /\ UNCHANGED <<flagVars, cam_to_seg, seg_to_ui, cam, hist>>

\* The camera worker sends a frame or an error (camera.rs:116, 85, 159).
EnvCamSend ==
    /\ cam_to_seg.tx /\ cam_to_seg.rx
    /\ cam.next < MaxFrames
    /\ \E m \in {FrameMsg(cam.next + 1), ErrorMsg} :
         cam_to_seg' = Sent(cam_to_seg, m)
    /\ cam' = [cam EXCEPT !.next = @ + 1]
    /\ EnvUnchanged
    /\ UNCHANGED <<flagVars, user_interaction, seg_to_ui, hist>>

\* The camera worker returns: the frame sender is dropped.
EnvCamGone ==
    /\ cam_to_seg.tx
    /\ cam_to_seg' = [cam_to_seg EXCEPT !.tx = FALSE]
    /\ EnvUnchanged
    /\ UNCHANGED <<flagVars, user_interaction, seg_to_ui, cam, hist>>

\* The owner takes a message off the tracking-output channel (ui.rs:257).
EnvUiRecv ==
    /\ seg_to_ui.rx /\ TryRecvResult(seg_to_ui) = "Ok"
    /\ seg_to_ui' = Received(seg_to_ui)
    /\ EnvUnchanged
    /\ UNCHANGED <<flagVars, user_interaction, cam_to_seg, cam, hist>>

\* The tracking-output receiver is dropped.
EnvUiGone ==
    /\ seg_to_ui.rx
    /\ seg_to_ui' = [seg_to_ui EXCEPT !.rx = FALSE]
    /\ EnvUnchanged
    /\ UNCHANGED <<flagVars, user_interaction, cam_to_seg, cam, hist>>

\* The owner sets the engine's stop flag (ui.rs:526).
EnvStop ==
    /\ ~seg_stop_signal
    /\ seg_stop_signal' = TRUE
    /\ EnvUnchanged
    /\ UNCHANGED <<cam_stop_signal, audio_capture_stop_signal,
                   audio_processor_stop_signal, chanVars, cam, hist>>

EngineNext ==
    \/ SegNext
    \/ EnvSendCmd \/ EnvDropCmdSender \/ EnvCamSend \/ EnvCamGone
    \/ EnvUiRecv \/ EnvUiGone \/ EnvStop

EngineSpec == EngineInit /\ [][EngineNext]_vars

-----------------------------------------------------------------------------
(* Claims about the engine thread, checked under EngineSpec *)

\* C1: the engine never blocks on a send to the tracking-output channel:
\* whatever it has to report (a frame, an inference error, a forwarded
\* camera error), it is never found waiting at a send while the channel is
\* full and its consumer does not drain.
C1_NeverBlocksOnSend == ~SegBlocked

\* C7: a failed inference leaves the slots and the pending selection as
\* they were before it, and the engine goes on with its cycle (it reports
\* the failure and sends the frame) instead of terminating.
C7_FailedInferenceKeepsState ==
    (cyc.kind = "err" /\ seg.pc \in {"report_infer_err", "send_frame"}) =>
        /\ tracked_objects = cyc.pre
        /\ pending_selection = cyc.prePending
        /\ seg.exit = "none"

\* C7 witness: an inference failed while a slot was bound and the engine
\* has gone on to sending the frame.
C7_Witness ==
    /\ cyc.kind = "err"
    /\ seg.pc = "send_frame"
    /\ \E s \in Slots : IsSome(tracked_objects[s])

\* The step is a model.forward that returned Ok.
InferredOkStep == Len(hist'.inferred) = Len(hist.inferred) + 1 /\ cyc'.kind = "ok"

\* C33: a pending selection is consumed only by a successful inference.  It
\* changes only when a SelectObject overwrites it, when a ClearSelection
\* discards it, or when an inference succeeds, which resolves it for its
\* slot and leaves nothing pending; cycles without a frame and failed
\* inferences leave it as it is, and a successful inference with nothing
\* pending resolves nothing.
C33_PendingConsumedOnSuccess ==
    [][/\ (IsSome(pending_selection) /\ pending_selection' # pending_selection) =>
            \/ cyc'.kind = "cmd" /\ cyc'.cmd.type \in {"SelectObject", "ClearSelection"}
            \/ /\ InferredOkStep
               /\ pending_selection' = None
               /\ cyc'.prePending = pending_selection
               /\ cyc'.selSlot = Unwrap(pending_selection).slot
       /\ InferredOkStep =>
            /\ pending_selection' = None
            /\ cyc'.selSlot < MAX_TRACKS <=> IsSome(pending_selection)]_vars
\* The only command received is a selection; a first inference is behind, the
\* second one succeeded and resolved the selection.
C33_Witness ==
    /\ hist.rcvd = <<SelectObject(0, 2, 1)>>
    /\ Len(hist.inferred) = 2
    /\ cyc.kind = "ok" /\ cyc.selSlot = 0 /\ IsSome(cyc.prePending)
    /\ pending_selection = None

\* C16: consumer always gets the latest.  When the engine has produced a
\* frame and gone on, the newest message of the tracking-output channel is
\* that frame, so that a consumer draining the channel keeps the value most
\* recently produced and no newer value was dropped for an older one.
C16_ConsumerGetsLatest ==
    [][(seg.pc = "send_frame" /\ seg'.pc = "top") =>
          /\ seg_to_ui'.q # <<>>
          /\ seg_to_ui'.q[Len(seg_to_ui'.q)] = FrameMsg(Unwrap(seg.latest_frame))]_vars

\* C22: only the latest frame is processed.  The detection call of a cycle
\* is made on the last frame the cycle's drain received, and only if it
\* received one; the frames inferred have strictly increasing ids, so that
\* no frame is inferred twice and no frame drained before an inferred one is
\* inferred later.
C22_LatestFrameOnly ==
    /\ seg.pc = "infer" =>
          /\ hist.drained # <<>>
          /\ seg.latest_frame = Some(hist.drained[Len(hist.drained)])
    /\ \A i \in 1..Len(hist.inferred) : \A k \in 1..Len(hist.inferred) :
          i < k => hist.inferred[i] < hist.inferred[k]
\* Two frames were drained in one cycle and the call is made on the second.
C22_Witness ==
    /\ seg.pc = "infer"
    /\ hist.drained = <<1, 2>>
    /\ hist.inferred = <<>>
    /\ seg.latest_frame = Some(2)

\* The last command received is a RemoveObjectAt whose point was in no bound
\* slot's bbox.
RemovalMissed ==
    /\ cyc.kind = "cmd" /\ cyc.cmd.type = "RemoveObjectAt"
    /\ \A s \in Slots :
          IsSome(cyc.pre[s]) => ~Contains(Unwrap(cyc.pre[s]), cyc.cmd.x, cyc.cmd.y)

\* C25: a removal that hits nothing changes nothing.  The step of the drain
\* that receives such a RemoveObjectAt leaves the slots, the pending
\* selection and the tracking-output channel as they were.
C25_MissedRemovalIsNoOp ==
    [][(Len(hist'.rcvd) = Len(hist.rcvd) + 1 /\ RemovalMissed') =>
          /\ tracked_objects' = tracked_objects
          /\ pending_selection' = pending_selection
          /\ seg_to_ui' = seg_to_ui]_vars
\* A removal missed the bound slot.
C25_Witness ==
    /\ RemovalMissed
    /\ \E s \in Slots : IsSome(cyc.pre[s])
    /\ tracked_objects = cyc.pre
    /\ hist.rcvd # <<>> /\ hist.rcvd[Len(hist.rcvd)] = cyc.cmd

\* The engine with its peers alive: commands and frames arrive, the owner
\* takes what the engine sends, the camera may go away.  The engine thread
\* is scheduled again and again, and the owner's update keeps draining the
\* tracking-output channel.
EngineRunNext == SegNext \/ EnvSendCmd \/ EnvCamSend \/ EnvCamGone \/ EnvUiRecv

EngineRunSpec ==
    EngineInit /\ [][EngineRunNext]_vars /\ WF_vars(SegNext) /\ WF_vars(EnvUiRecv)

\* C8: no interaction command is lost or reordered: at any time the
\* commands sent are exactly the commands received, in order, followed by
\* those still in the channel; the command drain is left only when the
\* channel was observed empty; and the n-th command sent is eventually the
\* n-th command received, unless the engine loop has ended.
C8_NoCommandLost ==
    /\ [](hist.sent = hist.rcvd \o user_interaction.q)
    /\ [][(seg.pc = "cmds" /\ seg'.pc # "cmds")
            => Len(user_interaction.q) = 0]_vars
    /\ \A n \in 1 .. MaxCmds :
         (Len(hist.sent) >= n) ~> (Len(hist.rcvd) >= n \/ seg.pc = "done")

\* C8 witness: two different commands were sent and both were received, in
\* that order, by the time the drain ended.
C8_Witness ==
    /\ Len(hist.rcvd) = 2
    /\ hist.rcvd = hist.sent
    /\ hist.rcvd[1] # hist.rcvd[2]
    /\ seg.pc = "frames"

\* The engine's try_recv finds one of its input channels disconnected.
SegSeesDisconnected ==
    \/ seg.pc = "cmds" /\ TryRecvResult(user_interaction) = "Disconnected"
    \/ seg.pc = "frames" /\ TryRecvResult(cam_to_seg) = "Disconnected"

\* C9: when the engine finds an input channel disconnected it leaves its
\* loop (through the report of the disconnection, if any) and the stop flag
\* is set by the time it has returned for that reason.
C9_DisconnectTerminates ==
    /\ [][(SegSeesDisconnected /\ seg' # seg)
            => seg'.pc \in {"report_cam_disc", "done"}]_vars
    /\ []((seg.pc = "done" /\ seg.exit = "camera_disconnected") => seg_stop_signal)

-----------------------------------------------------------------------------
(* The spectral analyzer thread: AudioProcessor::run (music.rs:114-259),   *)
(* and the capture callback that feeds it (live_audio.rs:77-91).  A raw    *)
(* block is modelled by its length in samples, an intensity vector by its  *)
(* origin: "zeros" (the silence report) or "levels" (one analysis).        *)

FFT_SIZE == 512
HOP_SIZE == 128

MaxBlocks == 1
BlockLens == {256, 1024}

OutsideAp ==
    UNCHANGED <<trackerVars, harnessVars, cam_stop_signal, seg_stop_signal,
                audio_capture_stop_signal, cam_to_seg, seg_to_ui,
                user_interaction, seg, cam, ui, cb>>

\* run returns: the processor's receiver and sender are dropped with it
\* (ui.rs:149-156).  out is the intensity channel as the last operation
\* left it.
ApReturn(why, out) ==
    /\ ap' = [ap EXCEPT !.pc = "done", !.exit = why,
                        !.send = IF why = "intensity_disconnected" THEN "Disconnected" ELSE @]
    /\ raw_samples' = [raw_samples EXCEPT !.rx = FALSE]
    /\ intensities' = [out EXCEPT !.tx = FALSE]

\* Mutant: the callback does not look at the flag.
FlagIgnored(stop_signal) == FALSE

\* if stop_signal_clone.load(Ordering::Relaxed) { return; }
\* (live_audio.rs:78-80)
FlagStops(stop_signal) == stop_signal

CallbackUnchanged ==
    UNCHANGED <<trackerVars, harnessVars, flagVars, cam_to_seg, seg_to_ui,
                user_interaction, intensities, seg, cam, ap, ui>>

\* The audio thread calls the data callback, at most max times: the callback
\* loads the flag (live_audio.rs:78).  A call that finds the flag set
\* returns at once and leaves no trace.
CallbackLoad(max) ==
    /\ raw_samples.tx
    /\ cb.pc = "idle"
    /\ hist.blocks < max
    /\ ~FlagStops(audio_capture_stop_signal)
    /\ cb' = [cb EXCEPT !.pc = "send"]
    /\ CallbackUnchanged
    /\ UNCHANGED <<raw_samples, hist>>

\* sender_clone.try_send(data.to_vec()) with a block of one of the lengths
\* lens, and the callback returns (live_audio.rs:81-90).
CallbackSend(lens) ==
    /\ cb.pc = "send"
    /\ \E len \in lens :
         raw_samples' = TrySent(raw_samples, RAW_SAMPLES_CAP, len)
    /\ hist' = [hist EXCEPT !.blocks = @ + 1]
    /\ cb' = [pc |-> "idle",
              late |-> cb.late + IF audio_capture_stop_signal THEN 1 ELSE 0]
    /\ CallbackUnchanged

\* The data callback of the input stream (live_audio.rs:77-91).
Callback(max, lens) == CallbackLoad(max) \/ CallbackSend(lens)

AudioCallback == Callback(MaxBlocks, BlockLens)

\* while !stop_signal.load() (music.rs:120).
ApTop ==
    /\ ap.pc = "top"
    /\ IF audio_processor_stop_signal
         THEN ApReturn("stop", intensities)
         ELSE ap' = [ap EXCEPT !.pc = "recv"] /\ UNCHANGED <<raw_samples, intensities>>
    /\ OutsideAp
    /\ UNCHANGED <<audio_processor_stop_signal, hist>>

\* raw_sample_receiver.try_recv() and its three arms (music.rs:122-159).
ApRecv ==
    /\ ap.pc = "recv"
    /\ LET r == TryRecvResult(raw_samples) IN
         CASE r = "Ok" ->
                /\ raw_samples' = Received(raw_samples)
                /\ ap' = [ap EXCEPT !.pc = "process",
                                    !.sample_buffer = @ + (Head(raw_samples.q) \div ap.channels)]
                /\ hist' = [hist EXCEPT !.samples = @ + (Head(raw_samples.q) \div ap.channels)]
                /\ UNCHANGED intensities
           [] r = "Empty" ->
                /\ \E elapsed \in BOOLEAN :
                     IF ap.sample_buffer = 0 /\ elapsed
                       THEN /\ intensities' = TrySent(intensities, INTENSITIES_CAP, "zeros")
                            /\ ap' = [ap EXCEPT !.pc = "top",
                                                !.send = TrySendResult(intensities,
                                                                       INTENSITIES_CAP)]
                       ELSE /\ intensities' = intensities
                            /\ ap' = [ap EXCEPT !.pc = "top"]
                /\ UNCHANGED <<raw_samples, hist>>
           [] r = "Disconnected" -> ApReturn("raw_disconnected", intensities) /\ UNCHANGED hist
    /\ OutsideAp
    /\ UNCHANGED audio_processor_stop_signal

\* Mutant: a whole window is drained, the analyses do not overlap.
DrainWindow(len) == len - FFT_SIZE

\* self.sample_buffer.drain(0..HOP_SIZE) (music.rs:252)
DrainHop(len) == len - HOP_SIZE

\* Mutant: analyses go on while a hop of samples is left.
WindowReadyAtHop(len) == len >= HOP_SIZE

\* while self.sample_buffer.len() >= FFT_SIZE (music.rs:162)
WindowReady(len) == len >= FFT_SIZE

\* One round of while sample_buffer.len() >= FFT_SIZE (music.rs:162-253):
\* the analysis, the try_send of its result, the drain of one hop.  When
\* the intensity channel is disconnected the flag is stored and the loop
\* is left before the drain (music.rs:245-249), then the flag is found
\* set (music.rs:254-256).
ApAnalyze ==
    /\ ap.pc = "process"
    /\ WindowReady(ap.sample_buffer)
    /\ IF TrySendResult(intensities, INTENSITIES_CAP) = "Disconnected"
         THEN /\ audio_processor_stop_signal' = TRUE
              /\ ApReturn("intensity_disconnected", intensities)
         ELSE /\ intensities' = TrySent(intensities, INTENSITIES_CAP, "levels")
              /\ ap' = [ap EXCEPT !.sample_buffer = DrainHop(@),
                                  !.send = TrySendResult(intensities, INTENSITIES_CAP)]
              /\ UNCHANGED <<raw_samples, audio_processor_stop_signal>>
    /\ hist' = [hist EXCEPT !.analyses = @ + 1]
    /\ OutsideAp

\* The buffer holds less than one window: if stop_signal.load() { break; }
\* (music.rs:254-256).
ApCheckStop ==
    /\ ap.pc = "process"
    /\ ~WindowReady(ap.sample_buffer)
    /\ IF audio_processor_stop_signal
         THEN ApReturn("stop", intensities)
         ELSE ap' = [ap EXCEPT !.pc = "top"] /\ UNCHANGED <<raw_samples, intensities>>
    /\ OutsideAp
    /\ UNCHANGED <<audio_processor_stop_signal, hist>>

ApNext == ApTop \/ ApRecv \/ ApAnalyze \/ ApCheckStop

-----------------------------------------------------------------------------
(* AnalyzerSpec: the analyzer thread and the capture callback, with the    *)
(* stream, the intensity receiver and the stop flag in the hands of an     *)
(* environment.                                                            *)

AnalyzerInit ==
    /\ tracked_objects = NoTracks
    /\ pending_selection = None
    /\ cyc = CycInit
    /\ HarnessIdle
    /\ cam_stop_signal = FALSE /\ seg_stop_signal = FALSE
    /\ audio_capture_stop_signal = FALSE /\ audio_processor_stop_signal = FALSE
    /\ cam_to_seg = Chan(FALSE, FALSE) /\ seg_to_ui = Chan(FALSE, FALSE)
    /\ user_interaction = Chan(FALSE, FALSE)
    /\ raw_samples = Chan(TRUE, TRUE) /\ intensities = Chan(TRUE, TRUE)
    /\ seg = [pc |-> "off", latest_frame |-> None, exit |-> "none"]
    /\ cam = [pc |-> "off", next |-> 0, exit |-> "none", send |-> "none"]
    /\ \E ch \in {1, 2} :
         ap = [pc |-> "top", sample_buffer |-> 0, channels |-> ch, exit |-> "none",
          send |-> "none"]
    /\ ui = UiOff
    /\ hist = NoHist
    /\ cb = CbIdle

AudioEnvUnchanged ==
    UNCHANGED <<trackerVars, harnessVars, cam_stop_signal, seg_stop_signal, cam_to_seg,
                seg_to_ui, user_interaction, threadVars, hist>>

\* The input stream is dropped: the only raw-sample sender goes with it
\* (live_audio.rs:66, ui.rs:530-536).
EnvDropStream ==
    /\ raw_samples.tx
    /\ cb.pc = "idle"
    /\ raw_samples' = [raw_samples EXCEPT !.tx = FALSE]
    /\ AudioEnvUnchanged
    /\ UNCHANGED <<audio_capture_stop_signal, audio_processor_stop_signal, intensities>>

\* The owner sets the capture flag and the analyzer flag (ui.rs:527-528).
EnvStopAudio ==
    /\ ~audio_processor_stop_signal
    /\ audio_capture_stop_signal' = TRUE
    /\ audio_processor_stop_signal' = TRUE
    /\ AudioEnvUnchanged
    /\ UNCHANGED <<raw_samples, intensities>>

\* The consumer takes an intensity vector off the channel.
EnvIntensityRecv ==
    /\ intensities.rx /\ TryRecvResult(intensities) = "Ok"
    /\ intensities' = Received(intensities)
    /\ AudioEnvUnchanged
    /\ UNCHANGED <<audio_capture_stop_signal, audio_processor_stop_signal, raw_samples>>

\* The consumer returns: the intensity receiver is dropped.
EnvIntensityGone ==
    /\ intensities.rx
    /\ intensities' = [intensities EXCEPT !.rx = FALSE]
    /\ AudioEnvUnchanged
    /\ UNCHANGED <<audio_capture_stop_signal, audio_processor_stop_signal, raw_samples>>

AnalyzerNext ==
    \/ ApNext \/ AudioCallback
    \/ EnvDropStream \/ EnvStopAudio \/ EnvIntensityRecv \/ EnvIntensityGone

AnalyzerSpec == AnalyzerInit /\ [][AnalyzerNext]_vars

(* HopSpec: the analyzer and the capture callback alone, the stream open,   *)
(* the intensity receiver alive and nobody asking to stop.                  *)

HopBlocks == 3

HopInit ==
    /\ tracked_objects = NoTracks
    /\ pending_selection = None
    /\ cyc = CycInit
    /\ HarnessIdle
    /\ cam_stop_signal = FALSE /\ seg_stop_signal = FALSE
    /\ audio_capture_stop_signal = FALSE /\ audio_processor_stop_signal = FALSE
    /\ cam_to_seg = Chan(FALSE, FALSE) /\ seg_to_ui = Chan(FALSE, FALSE)
    /\ user_interaction = Chan(FALSE, FALSE)
    /\ raw_samples = Chan(TRUE, TRUE) /\ intensities = Chan(TRUE, TRUE)
    /\ seg = [pc |-> "off", latest_frame |-> None, exit |-> "none"]
    /\ cam = [pc |-> "off", next |-> 0, exit |-> "none", send |-> "none"]
    /\ \E ch \in {1, 2} :
         ap = [pc |-> "top", sample_buffer |-> 0, channels |-> ch, exit |-> "none",
          send |-> "none"]
    /\ ui = UiOff
    /\ hist = NoHist
    /\ cb = CbIdle

HopCallback == Callback(HopBlocks, BlockLens)

HopNext == ApTop \/ ApRecv \/ ApAnalyze \/ ApCheckStop \/ HopCallback
HopSpec == HopInit /\ [][HopNext]_vars

\* The analyses a stream of S mono samples contains.
ExpectedAnalyses(S) ==
    IF S < FFT_SIZE THEN 0 ELSE (S - FFT_SIZE) \div (FFT_SIZE \div 4) + 1

AtLoopHead == ap.pc \in {"top", "recv"}

\* After the first analysis the buffer never goes below FFT_SIZE - HOP_SIZE
\* and is below FFT_SIZE at every loop head.
BufferStaysPrimed ==
    hist.analyses >= 1 =>
        /\ ap.sample_buffer >= FFT_SIZE - HOP_SIZE
        /\ AtLoopHead => ap.sample_buffer <= FFT_SIZE - 1

\* The step puts a silence vector into the intensity channel.
SilenceSent ==
    /\ Len(intensities'.q) = Len(intensities.q) + 1
    /\ intensities'.q[Len(intensities'.q)] = "zeros"

\* C35: once an analysis has been made the accumulation buffer holds between
\* FFT_SIZE - HOP_SIZE and FFT_SIZE - 1 samples at every later loop head and
\* is never empty again, so a silence vector is emitted only while no
\* analysis has ever run.
C35_SilenceOnlyBeforeFirstAnalysis ==
    []BufferStaysPrimed /\ [][SilenceSent => hist.analyses = 0]_vars
\* Silence was reported before the first block came; analyses have been
\* made since, and the analyzer idles at its receive with an empty channel
\* and a buffer one hop short of a window.
C35_Witness ==
    /\ hist.analyses >= 1 /\ ap.pc = "recv" /\ raw_samples.q = <<>>
    /\ ap.sample_buffer = FFT_SIZE - HOP_SIZE
    /\ intensities.q # <<>> /\ intensities.q[1] = "zeros"
    /\ intensities.q[Len(intensities.q)] = "levels"

\* ---- Claims about the data callback, checked under CallbackSpec ----

\* The analyzer and the data callback of HopSpec, and an owner that stops
\* the audio: the stores to the flags, then the drop of the stream
\* (ui.rs:527-543).
CallbackNext == HopNext \/ EnvStopAudio \/ EnvDropStream

CallbackSpec == HopInit /\ [][CallbackNext]_vars

\* The data callback hands a block to the raw-sample channel.
BlockSent == hist'.blocks # hist.blocks

\* C38 as stated: once the capture flag is set, the data callback sends no
\* further block into the raw-sample channel.
C38_NoSendAfterStop == [][BlockSent => ~audio_capture_stop_signal]_vars

\* A call of the data callback that finds the capture flag set returns
\* without a send.
SetFlagSkipsCall ==
    (audio_capture_stop_signal /\ cb.pc = "idle") =>
        (cb' = cb /\ hist'.blocks = hist.blocks)

\* C38 amended: a call of the data callback that finds the capture flag set
\* sends nothing, whatever the channel's fill level; once the flag is set,
\* the only block still sent is that of a call that had loaded the flag
\* before the store, so at most one.
C38_CheckedCallSendsNothing == [](cb.late <= 1) /\ [][SetFlagSkipsCall]_vars

\* C38 witness: the flag was set while a call was past its load, that call
\* has sent its block into a channel that had room, the callback is idle
\* again under the set flag, and the stream still lives.
C38_Witness ==
    /\ audio_capture_stop_signal /\ raw_samples.tx
    /\ cb.pc = "idle" /\ cb.late = 1
    /\ Len(raw_samples.q) >= 1
    /\ hist.blocks < HopBlocks

\* C13: the silence vector is emitted once per idle period.  A silence
\* vector is sent only while the accumulation buffer is empty, that is
\* while no block has been received since the last analysis, so two
\* silence vectors next to each other in the intensity channel were
\* emitted in one and the same idle period: there are never two.
C13_SilenceOncePerIdlePeriod ==
    \A i \in 1 .. Len(intensities.q) - 1 :
        ~(intensities.q[i] = "zeros" /\ intensities.q[i + 1] = "zeros")

\* C10: when the analyzer finds the raw-sample channel disconnected it
\* stops, and the cancellation flag is set when it has stopped for that
\* reason.
C10_RawDisconnectSignals ==
    (ap.pc = "done" /\ ap.exit = "raw_disconnected") => audio_processor_stop_signal

-----------------------------------------------------------------------------
(* The camera thread: camera_capture_loop (camera.rs:56-175).  Only its    *)
(* sender to the engine is modelled; cam.next counts the messages sent,    *)
(* cam.send is the result of its latest try_send of a frame.               *)

\* The messages the camera thread may send in a run of the whole program.
CamFrames == 1

OutsideCam ==
    UNCHANGED <<trackerVars, harnessVars, flagVars, seg_to_ui, user_interaction,
                raw_samples, intensities, seg, ap, ui, cb, hist>>

CamReturn(why, out) ==
    /\ cam' = [cam EXCEPT !.pc = "done", !.exit = why,
                          !.send = IF why = "seg_disconnected" THEN "Disconnected" ELSE @]
    /\ cam_to_seg' = [out EXCEPT !.tx = FALSE]

\* Camera::new and open_stream (camera.rs:70-105): on failure the error
\* is sent and the thread returns.
CamOpen ==
    /\ cam.pc = "open"
    /\ \E ok \in BOOLEAN :
         IF ok THEN cam' = [cam EXCEPT !.pc = "top"] /\ UNCHANGED cam_to_seg
               ELSE CamReturn("open_failed", Sent(cam_to_seg, ErrorMsg))
    /\ OutsideCam

\* while !stop_signal.load() (camera.rs:109), stop_stream on the way out.
CamTop ==
    /\ cam.pc = "top"
    /\ IF cam_stop_signal
         THEN CamReturn("stop", cam_to_seg)
         ELSE cam' = [cam EXCEPT !.pc = "capture"] /\ UNCHANGED cam_to_seg
    /\ OutsideCam

\* camera.frame() and what follows it (camera.rs:110-167): a decoded frame
\* is sent (and the loop left if the engine is gone), a decode error or a
\* timeout sends nothing, any other error is sent.
CamCapture ==
    /\ cam.pc = "capture"
    /\ \E outcome \in {"frame", "retry", "error"} :
         CASE outcome = "frame" ->
                /\ cam.next < CamFrames
                /\ IF SendResult(cam_to_seg) = "Disconnected"
                     THEN CamReturn("seg_disconnected", cam_to_seg)
                     ELSE /\ cam_to_seg' = Sent(cam_to_seg, FrameMsg(cam.next + 1))
                          /\ cam' = [cam EXCEPT !.pc = "top", !.next = @ + 1, !.send = "Ok"]
           [] outcome = "retry" ->
                /\ cam' = [cam EXCEPT !.pc = "top"]
                /\ UNCHANGED cam_to_seg
           [] outcome = "error" ->
                /\ cam.next < CamFrames
                /\ cam_to_seg' = Sent(cam_to_seg, ErrorMsg)
                /\ cam' = [cam EXCEPT !.pc = "top", !.next = @ + 1]
    /\ OutsideCam

CamNext == CamOpen \/ CamTop \/ CamCapture

-----------------------------------------------------------------------------
(* The owner: WebcamAppUI (ui.rs).  update drains the tracking-output      *)
(* channel and then sends at most one command; on_exit stores the four     *)
(* flags, drops the stream and joins the threads.  All frames have one     *)
(* resolution.                                                             *)

UiCmds == {SelectObject(0, 2, 1), ClearSelection}

OutsideUi ==
    UNCHANGED <<trackerVars, harnessVars, cam_to_seg, intensities, seg, cam, ap, cb>>

\* One seg_to_ui_rx.try_recv() of update (ui.rs:256-318).
UiRecv ==
    /\ ui.pc = "update"
    /\ LET r == TryRecvResult(seg_to_ui) IN
         CASE r = "Ok" ->
                /\ seg_to_ui' = Received(seg_to_ui)
                /\ ui' = [ui EXCEPT !.texture = @ \/ Head(seg_to_ui.q).type = "Frame"]
           [] r = "Empty" ->
                /\ ui' = [ui EXCEPT !.pc = "input"]
                /\ UNCHANGED seg_to_ui
           [] r = "Disconnected" ->
                /\ ui' = [ui EXCEPT !.pc = "input", !.seg_thread_handle = FALSE]
                /\ UNCHANGED seg_to_ui
    /\ OutsideUi
    /\ UNCHANGED <<flagVars, user_interaction, raw_samples, hist>>

\* The rest of update: a click on the image or the clear button sends a
\* command (ui.rs:446-468, 494-501); the image is there only once a frame
\* has been received.
UiInput ==
    /\ ui.pc = "input"
    /\ \/ UNCHANGED <<user_interaction, hist>>
       \/ \E c \in UiCmds :
            /\ c.type = "ClearSelection" \/ ui.texture
            /\ Len(hist.sent) < MaxCmds
            /\ user_interaction' = Sent(user_interaction, c)
            /\ hist' = IF SendResult(user_interaction) = "Ok"
                         THEN [hist EXCEPT !.sent = Append(@, c)]
                         ELSE hist
    /\ ui' = [ui EXCEPT !.pc = "update"]
    /\ OutsideUi
    /\ UNCHANGED <<flagVars, seg_to_ui, raw_samples>>

UiExitUnchanged ==
    UNCHANGED <<trackerVars, harnessVars, cam_to_seg, seg_to_ui, user_interaction,
                intensities, seg, cam, ap, cb, hist>>

\* on_exit is called between two updates; its first store
\* (ui.rs:525).
UiStopCam ==
    /\ ui.pc = "update"
    /\ cam_stop_signal' = TRUE
    /\ ui' = [ui EXCEPT !.pc = "stop_seg"]
    /\ UiExitUnchanged
    /\ UNCHANGED <<seg_stop_signal, audio_capture_stop_signal,
                   audio_processor_stop_signal, raw_samples>>

\* self.seg_stop_signal.store(true) (ui.rs:526).
UiStopSeg ==
    /\ ui.pc = "stop_seg"
    /\ seg_stop_signal' = TRUE
    /\ ui' = [ui EXCEPT !.pc = "stop_audio"]
    /\ UiExitUnchanged
    /\ UNCHANGED <<cam_stop_signal, audio_capture_stop_signal,
                   audio_processor_stop_signal, raw_samples>>

\* The stores to the capture flag and to the analyzer flag (ui.rs:527-528).
UiStopAudio ==
    /\ ui.pc = "stop_audio"
    /\ audio_capture_stop_signal' = TRUE
    /\ audio_processor_stop_signal' = TRUE
    /\ ui' = [ui EXCEPT !.pc = "drop_stream"]
    /\ UiExitUnchanged
    /\ UNCHANGED <<cam_stop_signal, seg_stop_signal, raw_samples>>

\* audio_capture_thread_handle.take(), pause and drop of the stream
\* (ui.rs:531-543): the stream stops once a running callback has returned,
\* and the callback's sender goes with it.
UiDropStream ==
    /\ ui.pc = "drop_stream"
    /\ cb.pc = "idle"
    /\ raw_samples' = [raw_samples EXCEPT !.tx = FALSE]
    /\ ui' = [ui EXCEPT !.pc = "join_cam", !.audio_capture_thread_handle = FALSE]
    /\ UiExitUnchanged
    /\ UNCHANGED flagVars

\* cam_thread_handle.take() and join (ui.rs:544-547).
UiJoinCam ==
    /\ ui.pc = "join_cam"
    /\ cam.pc = "done"
    /\ ui' = [ui EXCEPT !.pc = "join_proc"]
    /\ UiExitUnchanged
    /\ UNCHANGED <<flagVars, raw_samples>>

\* audio_processor_thread_handle.take() and join (ui.rs:548-551).
UiJoinProc ==
    /\ ui.pc = "join_proc"
    /\ ui.audio_processor_thread_handle => ap.pc = "done"
    /\ ui' = [ui EXCEPT !.pc = "join_seg", !.audio_processor_thread_handle = FALSE]
    /\ UiExitUnchanged
    /\ UNCHANGED <<flagVars, raw_samples>>

\* seg_thread_handle.take() and join (ui.rs:552-555); on_exit returns.
UiJoinSeg ==
    /\ ui.pc = "join_seg"
    /\ ui.seg_thread_handle => seg.pc = "done"
    /\ ui' = [ui EXCEPT !.pc = "exited", !.seg_thread_handle = FALSE]
    /\ UiExitUnchanged
    /\ UNCHANGED <<flagVars, raw_samples>>

UiNext ==
    \/ UiRecv \/ UiInput
    \/ UiStopCam \/ UiStopSeg \/ UiStopAudio \/ UiDropStream
    \/ UiJoinCam \/ UiJoinProc \/ UiJoinSeg

-----------------------------------------------------------------------------
(* Spec: the whole program as WebcamAppUI::new leaves it (ui.rs:92-172):   *)
(* the camera thread and the engine thread started, the audio capture      *)
(* started or failed, the analyzer started only if the capture did.        *)

\* Mutant: the processor thread is spawned whatever the capture did.
ProcessorStartedAlways(status) == TRUE

\* match initial_audio_status (ui.rs:142-160): the processor thread is
\* spawned only for Running.
ProcessorStarted(status) == status = "Running"

Init ==
    /\ tracked_objects = NoTracks
    /\ pending_selection = None
    /\ cyc = CycInit
    /\ HarnessIdle
    /\ cam_stop_signal = FALSE /\ seg_stop_signal = FALSE
    /\ audio_capture_stop_signal = FALSE /\ audio_processor_stop_signal = FALSE
    /\ cam_to_seg = Chan(TRUE, TRUE) /\ seg_to_ui = Chan(TRUE, TRUE)
    /\ user_interaction = Chan(TRUE, TRUE)
    /\ seg = [pc |-> "load", latest_frame |-> None, exit |-> "none"]
    /\ cam = [pc |-> "open", next |-> 0, exit |-> "none", send |-> "none"]
    /\ hist = NoHist
    /\ cb = CbIdle
    /\ \E audio \in BOOLEAN :
       \E status \in {IF audio THEN "Running" ELSE "Error"} :
         /\ raw_samples = Chan(audio, ProcessorStarted(status))
         /\ intensities = Chan(ProcessorStarted(status), TRUE)
         /\ ap = [pc |-> IF ProcessorStarted(status) THEN "top" ELSE "off",
                  sample_buffer |-> 0, channels |-> 1, exit |-> "none",
          send |-> "none"]
         /\ ui = [pc |-> "update", texture |-> FALSE,
                  audio_capture_thread_handle |-> audio,
                  audio_processor_thread_handle |-> ProcessorStarted(status),
                  seg_thread_handle |-> TRUE,
                  live_audio_status |-> status]

Next == SegNext \/ CamNext \/ ApNext \/ AudioCallback \/ UiNext

Spec == Init /\ [][Next]_vars

\* The whole program with every thread scheduled again and again and the
\* owner's update running for as long as on_exit is not called.  Nothing is
\* assumed about the arrival of audio blocks or about on_exit being called.
FairSpec ==
    /\ Spec
    /\ WF_vars(SegNext) /\ WF_vars(CamNext) /\ WF_vars(ApNext)
    /\ WF_vars(UiRecv \/ UiInput)

\* A worker loop has stopped because one of its channels was disconnected.
StoppedByDisconnect ==
    \/ seg.pc = "done" /\ seg.exit \in {"camera_disconnected", "ui_disconnected"}
    \/ cam.pc = "done" /\ cam.exit = "seg_disconnected"
    \/ ap.pc = "done" /\ ap.exit \in {"raw_disconnected", "intensity_disconnected"}

\* Every worker loop that was started has stopped.
WorkersStopped == seg.pc = "done" /\ cam.pc = "done" /\ ap.pc \in {"done", "off"}

\* C11: once a worker loop has stopped because of a disconnected channel,
\* every sibling worker loop (camera, analyzer, engine) eventually stops.
C11_DisconnectStopsSiblings == StoppedByDisconnect ~> WorkersStopped

\* C12: a stop flag is only ever written from false to true: no step of any
\* component takes a flag that is set back to unset.
C12_FlagsOnlySet ==
    [][/\ cam_stop_signal => cam_stop_signal'
       /\ seg_stop_signal => seg_stop_signal'
       /\ audio_capture_stop_signal => audio_capture_stop_signal'
       /\ audio_processor_stop_signal => audio_processor_stop_signal']_vars

\* C12 witness: the engine has set its flag on the camera's disconnection,
\* on_exit has stored all four flags after that, and all are set.
C12_Witness ==
    /\ seg.pc = "done" /\ seg.exit = "camera_disconnected"
    /\ ui.pc = "join_cam"
    /\ cam_stop_signal /\ seg_stop_signal
    /\ audio_capture_stop_signal /\ audio_processor_stop_signal

\* on_exit has begun and has not returned.
UiExiting ==
    ui.pc \in {"stop_seg", "stop_audio", "drop_stream", "join_cam", "join_proc", "join_seg"}

\* C2: shutdown always completes: from the moment on_exit has begun until
\* it has returned, the program is never stuck: some worker can still take
\* a step towards its return, or the owner can go on with its joins.
C2_ShutdownCompletes == UiExiting => ENABLED Next

-----------------------------------------------------------------------------
(* TrackSpec: the tracker driven cycle by cycle.  Each step is one command *)
(* of a drain or one inference result, over a small universe of boxes.      *)
(* cyc is a history variable: TForget clears it and every operation starts *)
(* from a cleared history, so that each tracker state is expanded once     *)
(* whatever operation led to it.                                           *)

MaxDets == 2

BoxA == Box(0, 0, 4, 2)
BoxB == Box(1, 0, 4, 2)
BoxC == Box(0, 0, 5, 2)
BoxD == Box(4, 1, 4, 2)
TrackBoxes == {BoxA, BoxB, BoxC, BoxD}
ClickPoints == {<<2, 1>>, <<5, 2>>, <<9, 9>>}

DetLists(boxes, n) == UNION {[1..k -> boxes] : k \in 0..n}

TrackCmds ==
    {SelectObject(s, p[1], p[2]) : s \in Slots, p \in ClickPoints}
        \cup {SelectObject(MAX_TRACKS, 2, 1)}
        \cup {RemoveObjectAt(p[1], p[2]) : p \in ClickPoints}
        \cup {ClearSelection}

\* Everything outside the tracker, at rest.
RestIdle ==
    /\ HarnessIdle
    /\ PipelineOff
RestUnchanged == UNCHANGED <<harnessVars, flagVars, chanVars, threadVars, hist>>

TrackInit ==
    /\ tracked_objects = NoTracks
    /\ pending_selection = None
    /\ cyc = CycInit
    /\ RestIdle

Fresh == cyc.kind = "init"

TDrain == Fresh /\ RestUnchanged /\ \E cmd \in TrackCmds : DoCmd(cmd)

TCycleOk ==
    /\ Fresh
    /\ RestUnchanged
    /\ \E dets \in DetLists(TrackBoxes, MaxDets) : DoInferenceOk(dets)

TCycleErr == Fresh /\ RestUnchanged /\ DoInferenceErr

TForget ==
    /\ ~Fresh
    /\ cyc' = CycInit
    /\ RestUnchanged
    /\ UNCHANGED <<tracked_objects, pending_selection>>

TrackNext == TDrain \/ TCycleOk \/ TCycleErr \/ TForget

TrackSpec == TrackInit /\ [][TrackNext]_vars


-----------------------------------------------------------------------------
(* Claims about one tracking cycle, checked under TrackSpec *)

\* The (slot, detection index) bindings of the last cycle: the one made by
\* selection resolution and the ones made by frame-to-frame matching.
Bindings ==
    (IF cyc.selIdx # 0 THEN {<<cyc.selSlot, cyc.selIdx>>} ELSE {})
        \cup {<<s, cyc.matchIdx[s]>> : s \in {t \in Slots : cyc.matchIdx[t] # 0}}

\* C3: in every cycle each slot holds at most one TrackedObject and no
\* detection index is bound to two different slots, counting the binding made
\* by selection resolution and the bindings made by matching.
C3_OneSlotPerDetection ==
    /\ \A s \in Slots : Len(tracked_objects[s]) <= 1
    /\ cyc.kind = "ok" =>
          \A b1 \in Bindings : \A b2 \in Bindings : b1[2] = b2[2] => b1[1] = b2[1]

\* The detection indices consumed by the slots before slot s in the last cycle.
TakenBefore(s) == {cyc.matchIdx[t] : t \in {u \in Slots : u < s}} \ {0}

\* Slot s entered matching bound, and no detection still unmatched at its
\* turn had IoU above 0.3 with the bbox it carried.
Disappeared(s) ==
    /\ IsSome(cyc.afterSel[s])
    /\ \A i \in 1..Len(cyc.dets) :
          \/ i \in TakenBefore(s)
          \/ 10 * Intersect(Unwrap(cyc.afterSel[s]), cyc.dets[i])
                <= 3 * Union(Unwrap(cyc.afterSel[s]), cyc.dets[i])

\* C5: loss on disappearance.  In a cycle with a successful inference, a
\* bound slot for which no unmatched detection has IoU above 0.3 with the
\* bbox it carries into matching (the empty detection list included) is
\* empty at the end of that same cycle.
C5_LossOnDisappearance ==
    cyc.kind = "ok" => \A s \in Slots : Disappeared(s) => tracked_objects[s] = None

\* A slot tracked before the cycle lost its object although detections were
\* returned.
C5_Witness ==
    /\ cyc.kind = "ok"
    /\ Len(cyc.dets) > 0
    /\ \E s \in Slots :
          /\ IsSome(cyc.pre[s])
          /\ s # cyc.selSlot
          /\ Disappeared(s)
          /\ tracked_objects[s] = None

\* Detection i of the last cycle overlaps, above the selection threshold, the
\* bbox of a slot other than the selection's target.
GuardedOut(i) ==
    \E other \in Slots :
        /\ other # Unwrap(cyc.prePending).slot
        /\ IsSome(cyc.pre[other])
        /\ 10 * Intersect(cyc.dets[i], Unwrap(cyc.pre[other]))
              > 7 * Union(cyc.dets[i], Unwrap(cyc.pre[other]))

UnderClick(i) ==
    Contains(cyc.dets[i], Unwrap(cyc.prePending).x, Unwrap(cyc.prePending).y)

\* C6: selection overlap guard.  Selection never binds the target slot to a
\* detection whose IoU with another slot's current bbox exceeds 0.7, and when
\* every detection under the click is such a detection the target slot is
\* empty at the end of the cycle.
C6_SelectionOverlapGuard ==
    (cyc.kind = "ok" /\ IsSome(cyc.prePending)) =>
        /\ cyc.selIdx # 0 => ~GuardedOut(cyc.selIdx)
        /\ (\A i \in 1..Len(cyc.dets) : UnderClick(i) => GuardedOut(i))
              => tracked_objects[Unwrap(cyc.prePending).slot] = None

\* A click that hits only a detection held (IoU 0.8) by another slot, on a
\* target slot that was bound: the target slot ends empty.
C6_Witness ==
    /\ cyc.kind = "ok"
    /\ IsSome(cyc.prePending)
    /\ \E i \in 1..Len(cyc.dets) : UnderClick(i) /\ GuardedOut(i)
    /\ \A i \in 1..Len(cyc.dets) : UnderClick(i) => GuardedOut(i)
    /\ IsSome(cyc.pre[Unwrap(cyc.prePending).slot])
    /\ tracked_objects[Unwrap(cyc.prePending).slot] = None

\* The detections a pending selection may bind: under the click and not
\* guarded out.
Passing == {i \in 1..Len(cyc.dets) : UnderClick(i) /\ ~GuardedOut(i)}

\* C18: selection takes effect.  When a pending selection is resolved and
\* some detection is under the click and passes the overlap guard, the
\* selected slot ends the cycle bound to the bbox of the first such
\* detection, whatever the other slots matched.
C18_SelectionBinds ==
    (cyc.kind = "ok" /\ IsSome(cyc.prePending) /\ Passing # {}) =>
        LET first == CHOOSE i \in Passing : \A k \in Passing : i <= k
        IN  tracked_objects[Unwrap(cyc.prePending).slot] = Some(cyc.dets[first])

\* C19: the draw list is consistent.  Every slot listed for drawing in a
\* cycle is bound at the end of the cycle, to the bbox of the detection it
\* is listed with; no slot and no detection index is listed twice.
C19_DrawListConsistent ==
    cyc.kind = "ok" =>
        /\ \A k \in 1..Len(cyc.draw) :
              tracked_objects[cyc.draw[k][1]] = Some(cyc.dets[cyc.draw[k][2]])
        /\ \A k1 \in 1..Len(cyc.draw) : \A k2 \in 1..Len(cyc.draw) :
              (cyc.draw[k1][1] = cyc.draw[k2][1] \/ cyc.draw[k1][2] = cyc.draw[k2][2])
                  => k1 = k2

\* The detections slot s could continue with at its turn in the last cycle:
\* not taken by a lower slot, IoU with the bbox s carried above 0.3.
Available(s) ==
    {i \in (1..Len(cyc.dets)) \ TakenBefore(s) :
        10 * Intersect(Unwrap(cyc.afterSel[s]), cyc.dets[i])
            > 3 * Union(Unwrap(cyc.afterSel[s]), cyc.dets[i])}

\* Detection i is at least as good a continuation of slot s as detection k:
\* a greater IoU, or the same IoU and no greater an index.
Prevails(s, i, k) ==
    LET ni == Intersect(Unwrap(cyc.afterSel[s]), cyc.dets[i])
        di == Union(Unwrap(cyc.afterSel[s]), cyc.dets[i])
        nk == Intersect(Unwrap(cyc.afterSel[s]), cyc.dets[k])
        dk == Union(Unwrap(cyc.afterSel[s]), cyc.dets[k])
    IN  ni * dk > nk * di \/ (ni * dk = nk * di /\ i <= k)

\* C20: matching picks the maximum.  Every slot that enters matching bound
\* and has a detection available is matched to the available detection of
\* greatest IoU with the bbox it carried, the lowest index among equals, and
\* ends the cycle with that detection's bbox.
C20_MatchingPicksMax ==
    cyc.kind = "ok" =>
        \A s \in Slots :
            (IsSome(cyc.afterSel[s]) /\ Available(s) # {}) =>
                /\ cyc.matchIdx[s] \in Available(s)
                /\ \A k \in Available(s) : Prevails(s, cyc.matchIdx[s], k)
                /\ tracked_objects[s] = Some(cyc.dets[cyc.matchIdx[s]])
C20_Witness ==
    /\ cyc.kind = "ok"
    /\ \E s \in Slots :
          /\ IsSome(cyc.afterSel[s])
          /\ Available(s) = {1, 2}
          /\ cyc.matchIdx[s] = 2
          /\ tracked_objects[s] = Some(cyc.dets[2])
          /\ cyc.dets[2] # Unwrap(cyc.afterSel[s])

\* The IoU of detection i with the bbox slot t carried into matching is
\* strictly greater than its IoU with the bbox slot s carried.
BetterFor(t, s, i) ==
    Intersect(Unwrap(cyc.afterSel[t]), cyc.dets[i])
            * Union(Unwrap(cyc.afterSel[s]), cyc.dets[i])
        > Intersect(Unwrap(cyc.afterSel[s]), cyc.dets[i])
            * Union(Unwrap(cyc.afterSel[t]), cyc.dets[i])

\* C21: matching is greedy in ascending slot order.  A detection matched by
\* a slot is matched by no higher slot in the same cycle, and a slot that
\* lost its track lost it to no higher slot: every detection a higher slot
\* matched had IoU at most 0.3 with the bbox the lost slot carried.
C21_GreedyAscending ==
    cyc.kind = "ok" =>
        \A s \in Slots : \A t \in Slots :
            s < t =>
                /\ cyc.matchIdx[s] # 0 => cyc.matchIdx[t] # cyc.matchIdx[s]
                /\ (IsSome(cyc.afterSel[s]) /\ cyc.matchIdx[s] = 0 /\ cyc.matchIdx[t] # 0) =>
                      10 * Intersect(Unwrap(cyc.afterSel[s]), cyc.dets[cyc.matchIdx[t]])
                          <= 3 * Union(Unwrap(cyc.afterSel[s]), cyc.dets[cyc.matchIdx[t]])
\* The lower slot takes the only detection although the higher slot's IoU
\* with it is greater, and the higher slot is lost.
C21_Witness ==
    /\ cyc.kind = "ok"
    /\ \E s \in Slots : \E t \in Slots :
          /\ s < t
          /\ IsSome(cyc.afterSel[s]) /\ IsSome(cyc.afterSel[t])
          /\ cyc.matchIdx[s] # 0
          /\ BetterFor(t, s, cyc.matchIdx[s])
          /\ cyc.matchIdx[t] = 0
          /\ tracked_objects[t] = None

\* C23: ClearAll.  The drain of a ClearSelection command leaves every slot
\* empty and no selection pending, whatever was bound or pending before it.
C23_ClearAllEmpties ==
    (cyc.kind = "cmd" /\ cyc.cmd.type = "ClearSelection") =>
        /\ \A s \in Slots : tracked_objects[s] = None
        /\ pending_selection = None
C23_Witness ==
    /\ cyc.kind = "cmd" /\ cyc.cmd.type = "ClearSelection"
    /\ \E s \in Slots : \E t \in Slots : s # t /\ IsSome(cyc.pre[s]) /\ IsSome(cyc.pre[t])
    /\ IsSome(cyc.prePending)
    /\ tracked_objects = NoTracks /\ pending_selection = None

\* The slots whose bbox, before the last command, contained its point.
Hit == {s \in Slots : IsSome(cyc.pre[s]) /\ Contains(Unwrap(cyc.pre[s]), cyc.cmd.x, cyc.cmd.y)}

\* C24: RemoveObjectAt clears exactly the lowest slot whose bbox contains the
\* point; every other slot and the pending selection are as before.
C24_RemoveClearsFirstHit ==
    (cyc.kind = "cmd" /\ cyc.cmd.type = "RemoveObjectAt" /\ Hit # {}) =>
        /\ \A s \in Slots :
              tracked_objects[s] =
                  IF s \in Hit /\ \A t \in Hit : s <= t THEN None ELSE cyc.pre[s]
        /\ pending_selection = cyc.prePending
\* Two slots contained the point and the higher one is still bound.
C24_Witness ==
    /\ cyc.kind = "cmd" /\ cyc.cmd.type = "RemoveObjectAt"
    /\ \E s \in Hit : \E t \in Hit :
          s < t /\ tracked_objects[s] = None /\ tracked_objects[t] = cyc.pre[t]

\* C26: within a drain the pending selection for a slot is the latest one
\* received for that slot.  A SelectObject received while a selection for
\* slot s is pending replaces it if it is for s and leaves it pending
\* otherwise.
C26_LatestSelectionPerSlot ==
    [][(/\ IsSome(pending_selection)
        /\ cyc'.kind = "cmd" /\ cyc'.cmd.type = "SelectObject"
        /\ cyc'.cmd.slot \in Slots) =>
            IF cyc'.cmd.slot = Unwrap(pending_selection).slot
            THEN pending_selection' =
                    Some([slot |-> cyc'.cmd.slot, x |-> cyc'.cmd.x, y |-> cyc'.cmd.y])
            ELSE pending_selection' = pending_selection]_vars

\* C27: a selection without a valid candidate clears its slot.  When no
\* detection is under the click, or every one that is fails the overlap
\* guard, the selected slot is empty after selection resolution and at the
\* end of the cycle, and every other slot enters matching as it was.
C27_NoCandidateClears ==
    (cyc.kind = "ok" /\ IsSome(cyc.prePending) /\ Passing = {}) =>
        /\ cyc.selIdx = 0
        /\ tracked_objects[Unwrap(cyc.prePending).slot] = None
        /\ \A t \in Slots :
              cyc.afterSel[t] =
                  IF t = Unwrap(cyc.prePending).slot THEN None ELSE cyc.pre[t]
\* No detection under the click; the selected slot was bound and would have
\* continued with a detection, another slot continues.
C27_Witness ==
    /\ cyc.kind = "ok" /\ IsSome(cyc.prePending)
    /\ \A i \in 1..Len(cyc.dets) : ~UnderClick(i)
    /\ IsSome(cyc.pre[Unwrap(cyc.prePending).slot])
    /\ \E i \in 1..Len(cyc.dets) :
          cyc.dets[i] = Unwrap(cyc.pre[Unwrap(cyc.prePending).slot])
    /\ tracked_objects[Unwrap(cyc.prePending).slot] = None
    /\ \E t \in Slots : IsSome(tracked_objects[t])

BoundSlots(tr) == {s \in Slots : IsSome(tr[s])}

\* C28: explicit selection only.  A slot that was empty before an operation
\* is bound after it only if the operation is a cycle that resolved a pending
\* selection for that slot; a cycle without a pending selection, a command
\* and a failed inference bind nothing, so the bound slots do not grow.
C28_ExplicitSelectionOnly ==
    cyc.kind # "init" =>
        /\ \A s \in Slots :
              (cyc.pre[s] = None /\ IsSome(tracked_objects[s])) =>
                  /\ cyc.kind = "ok"
                  /\ IsSome(cyc.prePending)
                  /\ Unwrap(cyc.prePending).slot = s
        /\ (cyc.kind # "ok" \/ cyc.prePending = None) =>
              /\ BoundSlots(tracked_objects) \subseteq BoundSlots(cyc.pre)
              /\ Cardinality(BoundSlots(tracked_objects)) <= Cardinality(BoundSlots(cyc.pre))
\* A cycle without a selection: a slot continues, a detection is left
\* unmatched and the empty slots stay empty.
C28_Witness ==
    /\ cyc.kind = "ok" /\ cyc.prePending = None
    /\ \E s \in Slots : cyc.matchIdx[s] # 0
    /\ \E i \in 1..Len(cyc.dets) : \A s \in Slots : cyc.matchIdx[s] # i
    /\ \E s \in Slots : cyc.pre[s] = None /\ tracked_objects[s] = None

\* The last cycle resolved the selection that was pending, and selection
\* resolution touched no other slot.
ResolvedPendingOnly ==
    cyc.kind = "ok" =>
        /\ cyc.selSlot = IF IsSome(cyc.prePending) THEN Unwrap(cyc.prePending).slot
                                                   ELSE MAX_TRACKS
        /\ \A s \in Slots : s # cyc.selSlot => cyc.afterSel[s] = cyc.pre[s]

\* A valid SelectObject leaves its own selection as the pending one.
SelectReplaces ==
    (cyc'.kind = "cmd" /\ cyc'.cmd.type = "SelectObject" /\ cyc'.cmd.slot \in Slots) =>
        pending_selection' =
            Some([slot |-> cyc'.cmd.slot, x |-> cyc'.cmd.x, y |-> cyc'.cmd.y])

\* C34: one selection is pending at most, for all slots together.  A
\* SelectObject for slot b received while a selection for another slot a is
\* pending discards the one for a, and a successful inference resolves the
\* pending selection and no other: of several selections received before
\* it, only the last.
C34_SinglePendingSelection ==
    [](Len(pending_selection) <= 1 /\ ResolvedPendingOnly) /\ [][SelectReplaces]_vars
\* A selection for slot 1 has just replaced a pending selection for slot 0.
C34_Witness ==
    /\ cyc.kind = "cmd" /\ cyc.cmd.type = "SelectObject" /\ cyc.cmd.slot = 1
    /\ IsSome(cyc.prePending) /\ Unwrap(cyc.prePending).slot = 0
    /\ IsSome(pending_selection) /\ Unwrap(pending_selection).slot = 1

\* The last cycle resolved a selection for a slot that was bound, and some
\* detection under the click passes the guard against the other slots.
Reselected ==
    /\ cyc.kind = "ok" /\ IsSome(cyc.prePending)
    /\ IsSome(cyc.pre[Unwrap(cyc.prePending).slot])
    /\ Passing # {}

\* The slot's own bbox does not count in the guard: the first detection
\* under the click that passes against the other slots is bound to the slot
\* by selection resolution.
ReselectAccepted ==
    Reselected =>
        LET first == CHOOSE i \in Passing : \A k \in Passing : i <= k
        IN  /\ cyc.selIdx = first
            /\ cyc.afterSel[cyc.selSlot] = Some(cyc.dets[first])

\* C37: the overlap guard ignores the selected slot's own bbox.  Selecting
\* for slot s, which is bound, a detection under the click is accepted
\* whatever its IoU with the bbox slot s carried, and slot s is bound at the
\* end of the cycle.
C37_ReselectOwnObject ==
    /\ ReselectAccepted
    /\ Reselected => IsSome(tracked_objects[cyc.selSlot])


-----------------------------------------------------------------------------
(* JitterSpec: one slot bound to the only detection, then successive       *)
(* cycles whose single detection is the previous bbox moved by at most a   *)
(* tenth of its width and height; no commands.                             *)

JitterFrames == 20
JitterGrid == 4
JitterWidths == {10, 20}
JitterHeight == 10

JitterBoxes ==
    {Box(x, y, w, JitterHeight) : x \in 0..JitterGrid, y \in 0..JitterGrid,
                                  w \in JitterWidths}

\* b moved by at most 10% of its size, inside the grid.
Jittered(b) ==
    {c \in JitterBoxes :
        /\ c.w = b.w /\ c.h = b.h
        /\ 10 * (c.xmin - b.xmin) <= b.w /\ 10 * (b.xmin - c.xmin) <= b.w
        /\ 10 * (c.ymin - b.ymin) <= b.h /\ 10 * (b.ymin - c.ymin) <= b.h}

JitterInit ==
    /\ \E s \in Slots : \E b \in JitterBoxes :
          /\ tracked_objects = [NoTracks EXCEPT ![s] = Some(b)]
          /\ jit = [slot |-> s, n |-> 0, det |-> b]
    /\ dsp = NoDsp /\ calc = NoCalc
    /\ pending_selection = None
    /\ cyc = CycInit
    /\ PipelineOff

\* One more frame: the detection moves, whatever the tracker holds.
JitterCycle ==
    /\ jit.n < JitterFrames
    /\ UNCHANGED <<flagVars, chanVars, threadVars, hist, dsp, calc>>
    /\ \E c \in Jittered(jit.det) :
          /\ DoInferenceOk(<<c>>)
          /\ jit' = [jit EXCEPT !.n = jit.n + 1, !.det = c]

JitterNext == JitterCycle

JitterSpec == JitterInit /\ [][JitterNext]_vars

\* C4: persistence under jitter.  After every one of the 20 cycles the slot
\* bound at the start is still bound, to the detection of that cycle, and no
\* other slot is.
C4_PersistenceUnderJitter ==
    jit.slot \in Slots =>
        /\ IsSome(tracked_objects[jit.slot])
        /\ \A s \in Slots \ {jit.slot} : tracked_objects[s] = None
        /\ cyc.kind = "ok" => tracked_objects[jit.slot] = Some(cyc.dets[1])

\* Twenty cycles done, the last of which moved the bbox in both directions.
C4_Witness ==
    /\ jit.slot \in Slots
    /\ jit.n = JitterFrames
    /\ IsSome(tracked_objects[jit.slot])
    /\ IsSome(cyc.pre[jit.slot])
    /\ Unwrap(cyc.pre[jit.slot]).xmin # Unwrap(tracked_objects[jit.slot]).xmin
    /\ Unwrap(cyc.pre[jit.slot]).ymin # Unwrap(tracked_objects[jit.slot]).ymin

-----------------------------------------------------------------------------
(* The analyzer's adaptive ceiling (music.rs:92-112), one band.             *)
(* Band averages are counted in units of 1e-6, so that the seed 1e-3 of the *)
(* windows and the floor 1e-6 of a pushed value are both integers.          *)

NORM_WINDOW_SIZE == 50
WINDOW_SEED == 1000
PUSH_FLOOR == 1

\* vec![1e-3; NORM_WINDOW_SIZE]
SeededWindow == [i \in 1 .. NORM_WINDOW_SIZE |-> WINDOW_SEED]

\* window.iter().fold(0.0, |max, &val| max.max(val)): the largest of 0.0 and
\* the entries.
FoldMax(window) ==
    LET vals == {0} \cup {window[i] : i \in 1 .. Len(window)}
    IN  CHOOSE max \in vals : \A val \in vals : val <= max

OverCapacityLate(window) == Len(window) > NORM_WINDOW_SIZE + 1
OverCapacity(window) == Len(window) > NORM_WINDOW_SIZE

\* The window after the push and the eviction, and the maximum returned.
update_and_get_moving_max(window, new_value) ==
    LET pushed == Append(window, Max2(new_value, PUSH_FLOOR))
        kept == IF OverCapacity(pushed) THEN Tail(pushed) ELSE pushed
    IN  [window |-> kept, max |-> FoldMax(kept)]

(* CeilingSpec: some analysis frames of any loudness, one loud frame, then  *)
(* silent frames.  dsp.pushed is the history of every value the window was   *)
(* ever given, its seed included.                                           *)

MaxWarmup == 3
MaxSilent == 52
WarmValues == {0, 500, 2000}
LoudValue == 9000

CeilingInit ==
    /\ tracked_objects = NoTracks
    /\ pending_selection = None
    /\ cyc = CycInit
    /\ jit = NoJitter /\ calc = NoCalc
    /\ PipelineOff
    /\ dsp = [frames |-> 0, recent_max |-> SeededWindow, pushed |-> SeededWindow,
              ceiling |-> 0, before |-> 0, loud |-> 0]

CeilingFrame(avg, isLoud) ==
    /\ UNCHANGED <<trackerVars, jit, calc, flagVars, chanVars, threadVars, hist>>
    /\ \E r \in {update_and_get_moving_max(dsp.recent_max, avg)} :
          dsp' = [frames |-> dsp.frames + 1,
                  recent_max |-> r.window,
                  pushed |-> Append(dsp.pushed, Max2(avg, PUSH_FLOOR)),
                  ceiling |-> r.max,
                  before |-> dsp.ceiling,
                  loud |-> IF isLoud THEN dsp.frames + 1 ELSE dsp.loud]

CeilWarm ==
    /\ dsp.loud = 0 /\ dsp.frames < MaxWarmup
    /\ \E avg \in WarmValues : CeilingFrame(avg, FALSE)
CeilLoud ==
    /\ dsp.loud = 0
    /\ CeilingFrame(LoudValue, TRUE)
CeilSilent ==
    /\ dsp.loud > 0 /\ dsp.frames - dsp.loud < MaxSilent
    /\ CeilingFrame(0, FALSE)

CeilingNext == CeilWarm \/ CeilLoud \/ CeilSilent
CeilingSpec == CeilingInit /\ [][CeilingNext]_vars

SilentSinceLoud == dsp.frames - dsp.loud
LastPushed ==
    {dsp.pushed[i] : i \in (Len(dsp.pushed) - NORM_WINDOW_SIZE + 1) .. Len(dsp.pushed)}

\* C14: adaptive ceiling decay bound.  The ceiling an update returns is the
\* maximum of the last NORM_WINDOW_SIZE values given to the window; after the
\* loud frame it stays at the loud value for as long as fewer than
\* NORM_WINDOW_SIZE silent frames have followed, and from the frame that
\* evicts the loud value on it is the floor 1e-6 of a pushed value.
C14_CeilingDecay ==
    /\ dsp.frames > 0 =>
          /\ dsp.ceiling \in LastPushed
          /\ \A v \in LastPushed : v <= dsp.ceiling
    /\ dsp.loud > 0 =>
          dsp.ceiling =
              IF SilentSinceLoud < NORM_WINDOW_SIZE THEN LoudValue ELSE PUSH_FLOOR
C14_Witness ==
    /\ dsp.loud > 0
    /\ SilentSinceLoud = NORM_WINDOW_SIZE
    /\ dsp.before = LoudValue
    /\ dsp.ceiling = PUSH_FLOOR

-----------------------------------------------------------------------------
(* The analyzer's band intensities (music.rs:195-250) and the vector the    *)
(* engine works with (segmentation.rs:203-211).  An intensity is counted in *)
(* thousandths, rounded down; SMOOTHING_FACTOR is 0.15.                      *)

UNIT == 1000
SMOOTHING_PERCENT == 15

Clamp(v, lo, hi) == Max2(lo, Min2(v, hi))

\* The square root of num/den in thousandths.  The quotient is taken in
\* thousandths first and capped at 4, then r is the largest number of
\* thousandths whose square does not exceed it.
SqrtRatio(num, den) ==
    LET q == Min2((num * UNIT) \div den, 4 * UNIT)
    IN  CHOOSE r \in 0 .. 2 * UNIT :
            /\ r * r <= q * UNIT
            /\ (r + 1) * (r + 1) > q * UNIT

\* (avg_sq / max).sqrt().clamp(0.0, 1.0)
Normalize(avg, max) == Clamp(SqrtRatio(avg, max), 0, UNIT)

SmoothUnweighted(old, cur) == (old * (100 - SMOOTHING_PERCENT)) \div 100 + cur
\* smoothed * (1.0 - SMOOTHING_FACTOR) + current * SMOOTHING_FACTOR
Smooth(old, cur) ==
    (old * (100 - SMOOTHING_PERCENT) + cur * SMOOTHING_PERCENT) \div 100

\* vec![0.0; n]
Zeros(n) == [i \in 1 .. n |-> 0]

\* The three ceilings and the smoothed vector after one analysis frame whose
\* band averages are avgs; the loop runs over min(len, 3) entries.
AnalysisFrame(windows, smoothed, avgs) ==
    LET upd == [b \in 1 .. 3 |-> update_and_get_moving_max(windows[b], avgs[b])]
        current == [b \in 1 .. 3 |-> Normalize(avgs[b], upd[b].max)]
    IN  [windows |-> [b \in 1 .. 3 |-> upd[b].window],
         smoothed |-> [i \in 1 .. Len(smoothed) |->
                          IF i <= 3 THEN Smooth(smoothed[i], current[i])
                          ELSE smoothed[i]]]

\* segmentation.rs:205-211: cut to MAX_TRACKS entries or fill up with zeros.
PadToTracks(v) ==
    IF Len(v) >= MAX_TRACKS THEN SubSeq(v, 1, MAX_TRACKS)
    ELSE v \o Zeros(MAX_TRACKS - Len(v))

(* LevelSpec: the analyzer analyses frames or reports silence, and the       *)
(* engine takes the latest vector of the intensity channel and works with   *)
(* its padded form.  The frames of a run are bounded by MaxLevelFrames.     *)

MaxLevelFrames == 4
\* The band averages (low, mid, high) of an analysis frame.
LevelAverages == {<<0, 250, 4000>>, <<4000, 4000, 0>>, <<250, 0, 250>>}

LevelInit ==
    /\ tracked_objects = NoTracks
    /\ pending_selection = None
    /\ cyc = CycInit
    /\ jit = NoJitter /\ calc = NoCalc
    /\ WorkersOff
    /\ cam_to_seg = Chan(FALSE, FALSE) /\ seg_to_ui = Chan(FALSE, FALSE)
    /\ user_interaction = Chan(FALSE, FALSE)
    /\ raw_samples = Chan(FALSE, FALSE)
    /\ intensities = Chan(TRUE, TRUE)
    /\ dsp = [frames |-> 0,
              recent_max |-> [b \in 1 .. 3 |-> SeededWindow],
              smoothed_intensities |-> Zeros(MAX_TRACKS),
              emitted |-> <<>>,
              band_intensities |-> <<>>,
              used |-> <<>>]

LevelUnchanged ==
    UNCHANGED <<trackerVars, jit, calc, flagVars, cam_to_seg, seg_to_ui,
                user_interaction, raw_samples, threadVars, hist>>

\* music.rs:162-251, one pass of the analysis loop.
LevelAnalyze ==
    /\ dsp.frames < MaxLevelFrames
    /\ LevelUnchanged
    /\ \E avgs \in LevelAverages :
       \E r \in {AnalysisFrame(dsp.recent_max, dsp.smoothed_intensities, avgs)} :
          /\ dsp' = [dsp EXCEPT !.frames = dsp.frames + 1,
                                !.recent_max = r.windows,
                                !.smoothed_intensities = r.smoothed,
                                !.emitted = <<r.smoothed>>]
          /\ intensities' = TrySent(intensities, INTENSITIES_CAP, r.smoothed)

\* music.rs:141-153, the report of silence.
LevelSilence ==
    /\ dsp.frames < MaxLevelFrames
    /\ LevelUnchanged
    /\ \E z \in {Zeros(Len(dsp.smoothed_intensities))} :
          /\ dsp' = [dsp EXCEPT !.frames = dsp.frames + 1,
                                !.smoothed_intensities = z,
                                !.emitted = <<z>>]
          /\ intensities' = TrySent(intensities, INTENSITIES_CAP, z)

\* The engine's intake: the channel is drained and the most recent vector
\* kept; with nothing in the channel the previous vector stays.
LevelDrain ==
    /\ intensities.q # <<>>
    /\ LevelUnchanged
    /\ dsp' = [dsp EXCEPT !.band_intensities = intensities.q[Len(intensities.q)]]
    /\ intensities' = [intensities EXCEPT !.q = <<>>]

\* segmentation.rs:203-211
LevelUse ==
    /\ LevelUnchanged
    /\ UNCHANGED intensities
    /\ dsp' = [dsp EXCEPT !.used = <<PadToTracks(dsp.band_intensities)>>]

LevelNext == LevelAnalyze \/ LevelSilence \/ LevelDrain \/ LevelUse
LevelSpec == LevelInit /\ [][LevelNext]_vars

IsBandIntensities(v) ==
    /\ Len(v) = MAX_TRACKS
    /\ \A i \in 1 .. Len(v) : 0 <= v[i] /\ v[i] <= UNIT

\* C15: every vector the analyzer emits, every vector in the intensity
\* channel and every vector the engine works with in a cycle has exactly
\* MAX_TRACKS entries, each within [0, 1].
C15_IntensityVectors ==
    /\ \A i \in 1 .. Len(dsp.emitted) : IsBandIntensities(dsp.emitted[i])
    /\ \A i \in 1 .. Len(intensities.q) : IsBandIntensities(intensities.q[i])
    /\ \A i \in 1 .. Len(dsp.used) : IsBandIntensities(dsp.used[i])
C15_Witness ==
    /\ dsp.frames = MaxLevelFrames
    /\ dsp.emitted # <<>> /\ dsp.used # <<>>
    /\ dsp.used[1] = dsp.emitted[1]
    /\ \E i \in 1 .. MAX_TRACKS : dsp.used[1][i] > 0 /\ dsp.used[1][i] < UNIT
C15_WitnessZeroFill ==
    /\ dsp.band_intensities = <<>>
    /\ dsp.used = <<Zeros(MAX_TRACKS)>>

-----------------------------------------------------------------------------
(* IouSpec: Bbox::iou as a function of two boxes.  The quotient             *)
(* intersect/union is kept as its numerator and denominator; two quotients  *)
(* are the same number when their cross products are equal.                 *)

IouGrid == 3
IouWidths == 1 .. 3
IouHeights == 1 .. 2
IouBoxes ==
    {Box(x, y, w, h) : x \in 0 .. IouGrid, y \in 0 .. 1, w \in IouWidths, h \in IouHeights}

\* a.iou(b) = a.intersect(b) / a.union(b)
Iou(a, b) == [num |-> Intersect(a, b), den |-> Union(a, b)]

IouInit ==
    /\ tracked_objects = NoTracks
    /\ pending_selection = None
    /\ cyc = CycInit
    /\ jit = NoJitter /\ dsp = NoDsp
    /\ PipelineOff
    /\ \E a \in IouBoxes : \E b \in IouBoxes :
          calc = [done |-> FALSE, a |-> a, b |-> b]

IouCompute ==
    /\ ~calc.done
    /\ UNCHANGED <<trackerVars, jit, dsp, flagVars, chanVars, threadVars, hist>>
    /\ calc' = [done |-> TRUE, a |-> calc.a, b |-> calc.b,
                ab |-> Iou(calc.a, calc.b),
                ba |-> Iou(calc.b, calc.a),
                aa |-> Iou(calc.a, calc.a)]

IouNext == IouCompute
IouSpec == IouInit /\ [][IouNext]_vars

SameQuotient(p, q) == p.den > 0 /\ q.den > 0 /\ p.num * q.den = q.num * p.den
\* No point lies inside both boxes.
Disjoint(a, b) ==
    \/ xmax(a) <= b.xmin \/ xmax(b) <= a.xmin
    \/ ymax(a) <= b.ymin \/ ymax(b) <= a.ymin

LOW_START_HZ == 50
LOW_END_HZ == 180
MID_END_HZ == 3000

RateStep == 12000
MaxRateSteps == 16
SampleRates ==
    {4000, 8000, 11025, 16000, 22050, 32000, 44100, 48000, 88200, 96000, 176400}
        \cup {RateStep * k : k \in 1 .. MaxRateSteps}

\* (hz / bin_width).round() as usize with bin_width = sample_rate / FFT_SIZE:
\* the quotient hz * FFT_SIZE / sample_rate rounded half away from zero.
BinOf(hz, sample_rate) == (2 * hz * FFT_SIZE + sample_rate) \div (2 * sample_rate)

\* high_end_hz = (sample_rate / 2) * 0.9, rounded to a bin and held to
\* FFT_SIZE / 2 (music.rs:63, 70).
HighBinEnd(sample_rate) ==
    Min2((2 * 9 * (FFT_SIZE \div 2) * sample_rate + 10 * sample_rate)
             \div (2 * 10 * sample_rate),
         FFT_SIZE \div 2)

\* The three ranges stored by AudioProcessor::new (music.rs:65-70, 97-100).
BinRanges(sample_rate) ==
    [low  |-> <<Max2(BinOf(LOW_START_HZ, sample_rate), 1), BinOf(LOW_END_HZ, sample_rate)>>,
     mid  |-> <<BinOf(LOW_END_HZ, sample_rate), BinOf(MID_END_HZ, sample_rate)>>,
     high |-> <<BinOf(MID_END_HZ, sample_rate), HighBinEnd(sample_rate)>>]

\* Two power spectra of FFT_SIZE / 2 bins: all the energy in bin 0, or the
\* same energy in every bin.
Spectra == {"dc", "flat"}
Magnitudes(spectrum) ==
    [bin \in 0 .. (FFT_SIZE \div 2 - 1) |->
        IF spectrum = "flat" THEN 8 ELSE IF bin = 0 THEN 800 ELSE 0]

RECURSIVE SumBins(_, _, _)
SumBins(magnitudes, lo, hi) ==
    IF lo >= hi THEN 0
    ELSE IF hi = lo + 1 THEN magnitudes[lo]
    ELSE LET half == (lo + hi) \div 2
         IN  SumBins(magnitudes, lo, half) + SumBins(magnitudes, half, hi)

\* calc_avg (music.rs:176-188): the bins averaged and their average.
calc_avg(magnitudes, start_bin, end_bin) ==
    LET len == FFT_SIZE \div 2
        start == Min2(start_bin, len)
        stop == Min2(end_bin, len)
    IN  IF start >= stop
          THEN [bins |-> {}, avg |-> 0]
          ELSE [bins |-> start .. (stop - 1),
                avg |-> SumBins(magnitudes, start, stop) \div (stop - start)]

BinInit ==
    /\ tracked_objects = NoTracks
    /\ pending_selection = None
    /\ cyc = CycInit
    /\ jit = NoJitter /\ calc = NoCalc
    /\ PipelineOff
    /\ \E rate \in SampleRates : \E sp \in Spectra :
          dsp = [frames |-> 0, pc |-> "new", sample_rate |-> rate, spectrum |-> sp]

BinUnchanged ==
    UNCHANGED <<trackerVars, jit, calc, flagVars, chanVars, threadVars, hist>>

\* AudioProcessor::new (music.rs:41-102).
BinNew ==
    /\ dsp.pc = "new"
    /\ BinUnchanged
    /\ dsp' = [frames |-> 0, pc |-> "ready", sample_rate |-> dsp.sample_rate,
               spectrum |-> dsp.spectrum, ranges |-> BinRanges(dsp.sample_rate)]

\* The band averages of one analysis (music.rs:170-192).
BinAverage ==
    /\ dsp.pc = "ready"
    /\ BinUnchanged
    /\ \E m \in {Magnitudes(dsp.spectrum)} :
          dsp' = [frames |-> 1, pc |-> "averaged", sample_rate |-> dsp.sample_rate,
                  spectrum |-> dsp.spectrum, ranges |-> dsp.ranges,
                  low  |-> calc_avg(m, dsp.ranges.low[1], dsp.ranges.low[2]),
                  mid  |-> calc_avg(m, dsp.ranges.mid[1], dsp.ranges.mid[2]),
                  high |-> calc_avg(m, dsp.ranges.high[1], dsp.ranges.high[2])]

BinNext == BinNew \/ BinAverage
BinSpec == BinInit /\ [][BinNext]_vars

\* The bins of a band average lie in 1 .. FFT_SIZE/2, and no bins give 0.
BandWithinRange(band) ==
    /\ band.bins \subseteq 1 .. (FFT_SIZE \div 2)
    /\ band.bins = {} => band.avg = 0

\* C30: for every sample rate, each band's bins used for averaging lie in
\* [1, FFT_SIZE/2]: bin 0 (DC) is in no band's average, and an empty range
\* gives the average 0.
C30_BinsExcludeDc ==
    dsp.pc = "averaged" =>
        /\ BandWithinRange(dsp.low)
        /\ BandWithinRange(dsp.mid)
        /\ BandWithinRange(dsp.high)

-----------------------------------------------------------------------------
(* StallSpec: the three producers (camera thread, capture callback,        *)
(* analyzer) with consumers that are alive and take nothing: the engine    *)
(* holds its receivers without draining them; the analyzer is the only     *)
(* consumer of the raw-sample channel and may be arbitrarily late.         *)

StallBlocks == 12

StallInit ==
    /\ tracked_objects = NoTracks
    /\ pending_selection = None
    /\ cyc = CycInit
    /\ HarnessIdle
    /\ cam_stop_signal = FALSE /\ seg_stop_signal = FALSE
    /\ audio_capture_stop_signal = FALSE /\ audio_processor_stop_signal = FALSE
    /\ cam_to_seg = Chan(TRUE, TRUE) /\ seg_to_ui = Chan(FALSE, FALSE)
    /\ user_interaction = Chan(FALSE, FALSE)
    /\ raw_samples = Chan(TRUE, TRUE) /\ intensities = Chan(TRUE, TRUE)
    /\ seg = [pc |-> "off", latest_frame |-> None, exit |-> "none"]
    /\ cam = [pc |-> "open", next |-> 0, exit |-> "none", send |-> "none"]
    /\ ap = [pc |-> "top", sample_buffer |-> 0, channels |-> 2, exit |-> "none",
          send |-> "none"]
    /\ ui = UiOff
    /\ hist = NoHist
    /\ cb = CbIdle

StallCallback == Callback(StallBlocks, {2 * FFT_SIZE})

StallNext == CamNext \/ ApNext \/ StallCallback
StallSpec == StallInit /\ [][StallNext]_vars

\* Blocks the callback handed over that are neither queued nor received.
BlocksDropped == hist.blocks - Len(raw_samples.q) - hist.samples \div FFT_SIZE

\* A producer at a send finds its step enabled whatever the fill level.
ProducersNeverWait ==
    /\ cam.pc = "capture" => ENABLED CamCapture
    /\ (raw_samples.tx /\ ~audio_capture_stop_signal /\ hist.blocks < StallBlocks) =>
          ENABLED StallCallback
    /\ ap.pc = "recv" => ENABLED ApRecv
    /\ (ap.pc = "process" /\ ap.sample_buffer >= FFT_SIZE) => ENABLED ApAnalyze

\* A send that finds its channel full leaves the channel as it was and the
\* producer goes on: the callback returns, the analyzer drains its hop and
\* stays in its analysis loop, or goes back to the loop head after the
\* silence vector.
FullMeansDropped ==
    /\ (hist'.blocks # hist.blocks
          /\ TrySendResult(raw_samples, RAW_SAMPLES_CAP) = "Full") =>
            raw_samples' = raw_samples
    /\ (hist'.analyses # hist.analyses
          /\ TrySendResult(intensities, INTENSITIES_CAP) = "Full") =>
            /\ intensities' = intensities
            /\ ap'.pc = "process"
            /\ ap'.sample_buffer = ap.sample_buffer - HOP_SIZE
    /\ (ap.pc = "recv" /\ ap'.pc = "top"
          /\ TrySendResult(intensities, INTENSITIES_CAP) = "Full") =>
            intensities' = intensities

\* C31: the sends of the camera thread, of the capture callback and of the
\* analyzer never wait: on a full channel the value is dropped and the
\* producer continues, however late the consumer is.
C31_ProducersNeverBlock == []ProducersNeverWait /\ [][FullMeansDropped]_vars
\* A block was dropped at the full raw-sample channel and analyses went on
\* after the intensity channel had filled up.
C31_Witness ==
    /\ BlocksDropped > 0
    /\ Len(intensities.q) = INTENSITIES_CAP
    /\ hist.analyses > INTENSITIES_CAP
    /\ ap.pc = "process"
    /\ cam.next > 0

-----------------------------------------------------------------------------
(* Claims about the start of the workers, checked under Spec *)

\* on_exit has not been called.
OwnerRunning == ui.pc \in {"update", "input"}

\* C32: when the audio capture fails to start, the analyzer is never
\* spawned and the audio status is an error, while the camera thread and
\* the engine thread are started and end only for reasons of their own:
\* the camera could not be opened, the model could not be loaded, the
\* other of the two has returned, or the owner exits.
C32_AudioFailureDegrades ==
    ~ui.audio_capture_thread_handle /\ OwnerRunning =>
        /\ ui.live_audio_status = "Error"
        /\ ap.pc = "off" /\ ~ui.audio_processor_thread_handle
        /\ hist.blocks = 0 /\ hist.analyses = 0 /\ intensities.q = <<>>
        /\ cam.pc # "off" /\ seg.pc # "off"
        /\ seg.pc # "done" => ui.seg_thread_handle
        /\ cam.pc = "done" => cam.exit = "open_failed" \/ seg.pc = "done"
        /\ seg.pc = "done" => seg.exit = "load_failed" \/ cam.pc = "done"
\* Without audio the camera has delivered a frame, the engine has inferred
\* on it and the owner shows it.
C32_Witness ==
    /\ ui.live_audio_status = "Error" /\ OwnerRunning
    /\ cam.next > 0 /\ hist.inferred # <<>> /\ ui.texture
    /\ seg.pc # "done"

\* C36: disconnection cascade.  Once the engine has returned and dropped its
\* receivers, the camera loop returns at its next send of a frame, and the
\* analyzer stores its stop flag and returns at its next send of an
\* intensity vector: no producer goes on after a send that found its
\* receiver gone.
C36_DisconnectionCascade ==
    /\ cam.send = "Disconnected" => cam.pc = "done"
    /\ ap.send = "Disconnected" => ap.pc = "done" /\ audio_processor_stop_signal

=============================================================================
